---- MODULE Spec2Model ----
(***************************************************************************)
(* Open Badges issuing models of badgr-server: apps/issuer/models.py.      *)
(*                                                                         *)
(* The persisted rows of Issuer, BadgeClass, BadgeInstance and of their    *)
(* child tables (IssuerStaff, extensions, alignments, tags, evidence) and  *)
(* the blob storage are the state.  Every model method that changes rows   *)
(* is one action.  Python strings that the code formats or concatenates    *)
(* are sequences of tokens, so that a formatted key is the concatenation   *)
(* the code builds.  A cached_*() accessor is the query it wraps: every    *)
(* child save and delete republishes the parent (CacheModel.save/delete).  *)
(***************************************************************************)
EXTENDS Integers, Sequences, FiniteSets, TLC

VARIABLES issuers, badgeclasses, instances, staff, extensions, alignments,
          tags, evidence, storage, collection, identities, bakedimages, rebaking,
          publishing, units, last

entities == <<issuers, badgeclasses, instances>>
children == <<staff, extensions, alignments, tags, evidence>>
vars == <<issuers, badgeclasses, instances, staff, extensions, alignments,
          tags, evidence, storage, collection, identities, bakedimages, rebaking,
          publishing, units, last>>

----------------------------------------------------------------------------
(* Bounds of the model                                                     *)

\* users that can be staff of the issuer
NumUsers == 2
\* longest desired list handed to a reconciliation setter
MaxDesired == 2
\* names the blob storage can hold
MaxFiles == 3
\* BadgeInstances of the deletion scenario
NumInstances == 2
\* backpack collections an assertion can be in
MaxCollections == 2
\* publish calls one cascade may make before it is cut off
MaxPublishCalls == MaxCollections + 10

----------------------------------------------------------------------------
(* Python values                                                           *)

\* None in a string-valued field; a Python string is a sequence of tokens
None == <<"<null>">>
EmptyStr == <<>>
Truthy(s) == s # None /\ s # EmptyStr
\* '{}'.format(v)
Format(v) == IF v = None THEN <<"None">> ELSE v
\* v or ''
OrEmpty(v) == IF Truthy(v) THEN v ELSE EmptyStr
\* v or None
OrNone(v) == IF Truthy(v) THEN v ELSE None
\* an empty FileField
NoFile == 0

Users == 1..NumUsers
Files == 1..MaxFiles

RECURSIVE Join(_, _)
\* sep.join(parts)
Join(sep, parts) ==
    IF parts = <<>> THEN <<>>
    ELSE IF Len(parts) = 1 THEN parts[1]
    ELSE parts[1] \o sep \o Join(sep, Tail(parts))

Range(s) == {s[i] : i \in DOMAIN s}

\* all sequences over S of length at most n
SeqsUpTo(S, n) == UNION {[1..k -> S] : k \in 0..n}

----------------------------------------------------------------------------
(* transaction.atomic() and the writes made inside it                      *)

\* The running result of a setter: the child rows, the number of row writes
\* attempted, whether one of them raised, the rows created and deleted, and
\* the removals the staff setter skipped to keep an owner, the children the
\* parent's last publish made readable and the number of parent publishes.
StartTx(rows) ==
    [rows |-> rows, n |-> 0, raised |-> FALSE, created |-> 0, deleted |-> 0,
     skipped |-> 0, published |-> rows, publishes |-> 0]

\* a child that publishes its parent before its own row is written
WritePublishFirst(acc, failAt, newRows, c, d) ==
    IF acc.raised THEN acc
    ELSE IF acc.n + 1 = failAt
         THEN [acc EXCEPT !.raised = TRUE, !.n = @ + 1]
         ELSE [acc EXCEPT !.rows = newRows, !.n = @ + 1,
                          !.created = @ + c, !.deleted = @ + d,
                          !.published = acc.rows, !.publishes = @ + 1]

\* One row write (create, save or delete).  The failAt-th write of the call
\* raises (a database error); failAt = 0 is a call in which none does.
\* The child's publish() and delete() publish the parent once the row is
\* written, so the parent's cached children are the rows as they are then.
Write(acc, failAt, newRows, c, d) ==
    IF acc.raised THEN acc
    ELSE IF acc.n + 1 = failAt
         THEN [acc EXCEPT !.raised = TRUE, !.n = @ + 1]
         ELSE [acc EXCEPT !.rows = newRows, !.n = @ + 1,
                          !.created = @ + c, !.deleted = @ + d,
                          !.published = newRows, !.publishes = @ + 1]

NoAtomic(before, acc) == acc.rows

\* with transaction.atomic(): an exception leaving the block rolls back
\* every write made inside it
Atomic(before, acc) == IF acc.raised THEN before ELSE acc.rows

RECURSIVE CreateAll(_, _, _)
\* manager.create(...) for each row of newRows, in order
CreateAll(acc, newRows, failAt) ==
    IF newRows = <<>> \/ acc.raised THEN acc
    ELSE CreateAll(Write(acc, failAt, Append(acc.rows, Head(newRows)), 1, 0),
                   Tail(newRows), failAt)

RECURSIVE DeleteMarked(_, _, _, _, _)
\* for row in snapshot: if mark: row.delete()
DeleteMarked(acc, kept, rest, marks, failAt) ==
    IF rest = <<>> \/ acc.raised THEN [acc EXCEPT !.rows = kept \o rest]
    ELSE IF Head(marks)
         THEN LET acc1 == Write(acc, failAt, kept \o Tail(rest), 0, 1)
              IN  IF acc1.raised THEN [acc1 EXCEPT !.rows = kept \o rest]
                  ELSE DeleteMarked(acc1, kept, Tail(rest), Tail(marks), failAt)
         ELSE DeleteMarked(acc, Append(kept, Head(rest)), Tail(rest),
                           Tail(marks), failAt)

----------------------------------------------------------------------------
(* BaseOpenBadgeObjectModel.extension_items                                *)

\* json.dumps / json.loads of a JSON value: the stored text is not the value
json_dumps(v) == <<"json", v>>
json_loads(text) == text[2]

RECURSIVE extension_add(_, _, _)
\* "add new": get_or_create(name=ext_name, defaults=...), an existing row has
\* its original_json overwritten and saved; touched holds the rows' places
extension_add(st, value, failAt) ==
    IF value = <<>> \/ st.acc.raised THEN st
    ELSE LET item == Head(value)
             ext_json == json_dumps(item.json)
             rows == st.acc.rows
             match == {i \in DOMAIN rows : rows[i].name = item.name}
         IN  IF Cardinality(match) > 1
             THEN [st EXCEPT !.acc.raised = TRUE]
             ELSE IF match = {}
             THEN extension_add(
                      [acc |-> Write(st.acc, failAt,
                                     Append(rows, [name |-> item.name,
                                                   original_json |-> ext_json]),
                                     1, 0),
                       touched |-> st.touched \cup {Len(rows) + 1}],
                      Tail(value), failAt)
             ELSE LET i == CHOOSE j \in match : TRUE
                  IN  extension_add(
                          [acc |-> Write(st.acc, failAt,
                                         [rows EXCEPT ![i].original_json = ext_json],
                                         0, 0),
                           touched |-> st.touched \cup {i}],
                          Tail(value), failAt)

\* the setter; value is the desired dict as its items in order
extension_items(rows, value, failAt) ==
    LET st == extension_add([acc |-> StartTx(rows), touched |-> {}], value, failAt)
        after == st.acc.rows
        marks == [i \in 1..Len(after) |-> i \notin st.touched]
    IN  DeleteMarked(st.acc, <<>>, after, marks, failAt)

----------------------------------------------------------------------------
(* BadgeClass.alignment_items                                              *)

AlignKeys == <<"target_name", "target_url", "target_description",
               "target_framework", "target_code">>

\* align.get(k, None)
DictGet(d, k) == IF k \in DOMAIN d THEN d[k] ELSE None

\* "&".join("{}={}".format(k, align.get(k, None)) for k in keys)
Identity(align) ==
    Join(<<"&">>, [i \in 1..Len(AlignKeys) |->
                     <<AlignKeys[i], "=">> \o Format(DictGet(align, AlignKeys[i]))])

\* the same key built from the fields of a persisted BadgeClassAlignment
ObjIdentity(alignment) ==
    Join(<<"&">>, [i \in 1..Len(AlignKeys) |->
                     <<AlignKeys[i], "=">> \o Format(alignment[AlignKeys[i]])])

AlignmentRowBlank(align) ==
    [k \in Range(AlignKeys) |-> IF k \in DOMAIN align THEN align[k] ELSE EmptyStr]

\* badgeclassalignment_set.create(**align): a field the descriptor leaves out
\* takes the column's default, '' for target_name and target_url, else None
AlignmentRow(align) ==
    [k \in Range(AlignKeys) |->
        IF k \in DOMAIN align THEN align[k]
        ELSE IF k \in {"target_name", "target_url"} THEN EmptyStr ELSE None]

alignment_items(rows, value, failAt) ==
    LET existing_idx == {ObjIdentity(rows[i]) : i \in DOMAIN rows}
        new_idx == {Identity(value[i]) : i \in DOMAIN value}
        missing == SelectSeq(value, LAMBDA a : Identity(a) \notin existing_idx)
        added == CreateAll(StartTx(rows),
                           [i \in 1..Len(missing) |-> AlignmentRow(missing[i])],
                           failAt)
        after == added.rows
        marks == [i \in 1..Len(after) |-> ObjIdentity(after[i]) \notin new_idx]
    IN  DeleteMarked(added, <<>>, after, marks, failAt)

----------------------------------------------------------------------------
(* BadgeClass.tag_items                                                    *)

tag_items(rows, value, failAt) ==
    LET existing_idx == {rows[i].name : i \in DOMAIN rows}
        new_idx == Range(value)
        missing == SelectSeq(value, LAMBDA t : t \notin existing_idx)
        added == CreateAll(StartTx(rows),
                           [i \in 1..Len(missing) |-> [name |-> missing[i]]],
                           failAt)
        after == added.rows
        marks == [i \in 1..Len(after) |-> after[i].name \notin new_idx]
    IN  DeleteMarked(added, <<>>, after, marks, failAt)

----------------------------------------------------------------------------
(* BadgeInstance.evidence_items                                            *)

\* '{}-{}'.format(narrative or '', url or '')
EvidenceKey(narrative, url) == OrEmpty(narrative) \o <<"-">> \o OrEmpty(url)

RECURSIVE evidence_add(_, _, _, _)
\* "add missing": get_or_create(badgeinstance=self, narrative=..., evidence_url=...)
evidence_add(acc, value, existing_idx, failAt) ==
    IF value = <<>> \/ acc.raised THEN acc
    ELSE LET data == Head(value)
             key == EvidenceKey(data.narrative, data.evidence_url)
             match == {i \in DOMAIN acc.rows :
                          /\ acc.rows[i].narrative = data.narrative
                          /\ acc.rows[i].evidence_url = data.evidence_url}
         IN  IF key \in existing_idx
             THEN evidence_add(acc, Tail(value), existing_idx, failAt)
             ELSE IF Cardinality(match) > 1
             THEN [acc EXCEPT !.raised = TRUE]
             ELSE IF match # {}
             THEN evidence_add(acc, Tail(value), existing_idx, failAt)
             ELSE evidence_add(
                      Write(acc, failAt,
                            Append(acc.rows, [narrative |-> data.narrative,
                                              evidence_url |-> data.evidence_url]),
                            1, 0),
                      Tail(value), existing_idx, failAt)

evidence_items(rows, value, failAt) ==
    LET existing_idx == {EvidenceKey(rows[i].narrative, rows[i].evidence_url) :
                            i \in DOMAIN rows}
        new_idx == {EvidenceKey(value[i].narrative, value[i].evidence_url) :
                       i \in DOMAIN value}
        added == evidence_add(StartTx(rows), value, existing_idx, failAt)
        after == added.rows
        marks == [i \in 1..Len(after) |->
                     EvidenceKey(OrNone(after[i].narrative),
                                 OrNone(after[i].evidence_url)) \notin new_idx]
    IN  DeleteMarked(added, <<>>, after, marks, failAt)

----------------------------------------------------------------------------
(* Issuer.staff_items and Issuer.save                                      *)

ROLE_OWNER == "owner"
ROLE_EDITOR == "editor"
ROLE_STAFF == "staff"
Roles == {ROLE_OWNER, ROLE_EDITOR, ROLE_STAFF}

AllStaff(rows) == rows

\* Issuer.owners: the staff joined through IssuerStaff rows of role owner
owners(rows) == SelectSeq(rows, LAMBDA s : s.role = ROLE_OWNER)

RECURSIVE staff_add(_, _, _, _)
\* "add missing staff records": get_or_create(issuer=self, user=...,
\* defaults={'role': ...}); a row found instead of created takes the role
staff_add(acc, value, existing_staff_idx, failAt) ==
    IF value = <<>> \/ acc.raised THEN acc
    ELSE LET staff_data == Head(value)
             rows == acc.rows
             match == {i \in DOMAIN rows : rows[i].user = staff_data.cached_user}
         IN  IF staff_data.cached_user \in existing_staff_idx
             THEN staff_add(acc, Tail(value), existing_staff_idx, failAt)
             ELSE IF match = {}
             THEN staff_add(
                      Write(acc, failAt,
                            Append(rows, [user |-> staff_data.cached_user,
                                          role |-> staff_data.role]),
                            1, 0),
                      Tail(value), existing_staff_idx, failAt)
             ELSE LET i == CHOOSE j \in match : TRUE
                  IN  staff_add(
                          Write(acc, failAt,
                                [rows EXCEPT ![i].role = staff_data.role], 0, 0),
                          Tail(value), existing_staff_idx, failAt)

NeverProtectOwner(staff_record, current) == TRUE

\* staff_record.role != IssuerStaff.ROLE_OWNER or len(self.owners) > 1
MayRemoveStaff(staff_record, current) ==
    staff_record.role # ROLE_OWNER \/ Len(owners(current)) > 1

RECURSIVE staff_remove(_, _, _, _, _)
\* "remove old staff records -- but never remove the only OWNER role"
staff_remove(acc, kept, rest, new_staff_idx, failAt) ==
    IF rest = <<>> \/ acc.raised THEN [acc EXCEPT !.rows = kept \o rest]
    ELSE LET staff_record == Head(rest)
         IN  IF /\ staff_record.user \notin new_staff_idx
                /\ MayRemoveStaff(staff_record, kept \o rest)
             THEN LET acc1 == Write(acc, failAt, kept \o Tail(rest), 0, 1)
                  IN  IF acc1.raised THEN [acc1 EXCEPT !.rows = kept \o rest]
                      ELSE staff_remove(acc1, kept, Tail(rest), new_staff_idx, failAt)
             ELSE staff_remove(
                      IF staff_record.user \notin new_staff_idx
                      THEN [acc EXCEPT !.skipped = @ + 1] ELSE acc,
                      Append(kept, staff_record), Tail(rest), new_staff_idx, failAt)

staff_items(rows, value, failAt) ==
    LET existing_staff_idx == {rows[i].user : i \in DOMAIN rows}
        new_staff_idx == {value[i].cached_user : i \in DOMAIN value}
        added == staff_add(StartTx(rows), value, existing_staff_idx, failAt)
    IN  staff_remove(added, <<>>, added.rows, new_staff_idx, failAt)

----------------------------------------------------------------------------
(* Versions, ids and stored original JSON                                  *)

Versions == {"1_1", "2_0"}
CURRENT_OBI_VERSION == "2_0"
UNVERSIONED_BAKED_VERSION == "2_0"

\* get_obi_context(obi_version): the context IRI of a supported version
get_obi_context(obi_version) ==
    IF obi_version = "1_1" THEN "https://w3id.org/openbadges/v1"
    ELSE "https://w3id.org/openbadges/v2"

\* a URL: an external one (a source_url) or OriginSetting.HTTP + reverse(view, entity_id)
NoUrl == [origin |-> "none", path |-> <<>>, v |-> ""]
External(source_url) == [origin |-> "external", path |-> source_url, v |-> ""]
Reverse(view, entity_id) ==
    [origin |-> "OriginSetting.HTTP", path |-> <<view>> \o entity_id, v |-> ""]

\* add_obi_version_ifneeded(url, obi_version): the version suffix of an id
add_obi_version_ifneeded(url, obi_version) == [url EXCEPT !.v = obi_version]

\* generate_sha256_hashstring(identifier, salt)
generate_sha256_hashstring(identifier, salt) ==
    <<"sha256$">> \o identifier \o <<"+">> \o salt

EntityId(kind, n) == <<kind, ToString(n)>>

\* The stored original_json text: absent (None or ''), text json.loads
\* rejects, or the text of a JSON object
OJNone == [kind |-> "none", doc |-> <<>>]
OJMalformed == [kind |-> "malformed", doc |-> <<>>]
OJDict(d) == [kind |-> "dict", doc |-> d]

\* OriginalJsonMixin.get_original_json: the parsed text, or None when the
\* text is absent or json.loads raises
get_original_json(original_json) ==
    IF original_json.kind = "dict"
    THEN [none |-> FALSE, doc |-> original_json.doc]
    ELSE [none |-> TRUE, doc |-> <<>>]

\* OriginalJsonMixin.get_filtered_json
get_filtered_json(original_json, excluded_fields) ==
    LET original == get_original_json(original_json)
    IN  IF original.none THEN original
        ELSE [none |-> FALSE,
              doc |-> [k \in DOMAIN original.doc \ excluded_fields |-> original.doc[k]]]

Put(json, k, v) == (k :> v) @@ json
PutIf(cond, json, k, v) == IF cond THEN Put(json, k, v) ELSE json
\* a value of a parsed JSON text: an object or a string
JObject(o) == [t |-> "object", o |-> o, s |-> <<>>]
JString(str) == [t |-> "string", o |-> <<>>, s |-> str]
\* isinstance(v, dict)
IsDict(v) == v.t = "object"

Raise == [raised |-> TRUE, doc |-> <<>>]
Return(doc) == [raised |-> FALSE, doc |-> doc]

\* self.get_original_json().get('image', None) under "if self.original_json:"
\* raises AttributeError when the stored text does not parse
ImageInfoRaises(original_json) ==
    original_json.kind # "none" /\ get_original_json(original_json).none

\* json['image'] = image_info; json['image']['id'] = image_url, when the
\* original JSON holds an image object
ImageValue(original_json, image_url) ==
    LET original == get_original_json(original_json)
    IN  IF /\ ~original.none
           /\ "image" \in DOMAIN original.doc
           /\ IsDict(original.doc["image"])
        THEN JObject(Put(original.doc["image"].o, "id", image_url))
        ELSE image_url

RECURSIVE PutExtensions(_, _)
\* for extension in self.cached_extensions(): json[extension.name] = json_loads(...)
PutExtensions(json, rows) ==
    IF rows = <<>> THEN json
    ELSE PutExtensions(Put(json, Head(rows).name, json_loads(Head(rows).original_json)),
                       Tail(rows))

\* a pass-through in which the imported value wins
PassThroughOverrides(json, extra) ==
    IF extra.none THEN json ELSE extra.doc @@ json

\* "pass through imported json": keys of extra that json does not hold
PassThrough(json, extra) ==
    IF extra.none THEN json ELSE json @@ extra.doc

SourceUrlKeys(json, self, obi_version, hosted) ==
    IF ~Truthy(self.source_url) THEN json
    ELSE IF obi_version = "1_1"
    THEN Put(Put(json, "source_url", self.source_url), "hosted_url", hosted)
    ELSE IF obi_version = "2_0"
    THEN Put(Put(json, "sourceUrl", self.source_url), "hostedUrl", hosted)
    ELSE json

----------------------------------------------------------------------------
(* Issuer.get_json                                                         *)

IssuerExcluded == {"@context", "id", "type", "name", "url", "description",
                   "image", "email"}

\* Issuer.jsonld_id, BadgeClass.jsonld_id, BadgeInstance.jsonld_id
jsonld_id(self, view, kind, n) ==
    IF Truthy(self.source_url) THEN External(self.source_url)
    ELSE Reverse(view, EntityId(kind, n))

\* self.jsonld_id if use_canonical_id else add_obi_version_ifneeded(...)
VersionedId(id, obi_version, use_canonical_id) ==
    IF use_canonical_id THEN id ELSE add_obi_version_ifneeded(id, obi_version)

\* "pass through imported json" under "if include_extra:"
IncludeExtra(json, include_extra, original_json, excluded_fields) ==
    IF include_extra
    THEN PassThrough(json, get_filtered_json(original_json, excluded_fields))
    ELSE json

\* the keys get_json sets before the source url
IssuerHead(self, i, obi_version, use_canonical_id) ==
    ("@context" :> get_obi_context(obi_version))
    @@ ("type" :> "Issuer")
    @@ ("id" :> VersionedId(jsonld_id(self, "issuer_json", "Issuer", i),
                            obi_version, use_canonical_id))
    @@ ("name" :> self.name) @@ ("url" :> self.url) @@ ("email" :> self.email)
    @@ ("description" :> self.description) @@ ("category" :> self.category)
    @@ ("slug" :> EntityId("Issuer", i))
    @@ ("image" :> ImageValue(self.original_json,
                              IF self.image
                              THEN Reverse("issuer_image", EntityId("Issuer", i))
                              ELSE NoUrl))

IssuerDoc(self, i, obi_version, include_extra, use_canonical_id) ==
    IncludeExtra(
        PutExtensions(
            SourceUrlKeys(IssuerHead(self, i, obi_version, use_canonical_id), self,
                          obi_version, Reverse("issuer_json", EntityId("Issuer", i))),
            extensions[<<"Issuer", i>>]),
        include_extra, self.original_json, IssuerExcluded)

Issuer_get_json(i, obi_version, include_extra, use_canonical_id) ==
    IF ImageInfoRaises(issuers[i].original_json) THEN Raise
    ELSE Return(IssuerDoc(issuers[i], i, obi_version, include_extra,
                          use_canonical_id))

----------------------------------------------------------------------------
(* BadgeClass.get_json                                                     *)

BadgeClassExcluded == {"@context", "id", "type", "name", "description", "image",
                       "criteria", "issuer"}

\* BadgeClassAlignment.get_json
Alignment_get_json(row) ==
    PutIf(Truthy(row["target_code"]),
          PutIf(Truthy(row["target_framework"]),
                PutIf(Truthy(row["target_description"]),
                      ("targetName" :> row["target_name"])
                      @@ ("targetUrl" :> row["target_url"]),
                      "targetDescription", row["target_description"]),
                "targetFramework", row["target_framework"]),
          "targetCode", row["target_code"])

\* json["criteria"]: get_criteria_url() for 1_1, the id/narrative object for 2_0
Criteria(self, b, obi_version) ==
    IF obi_version = "1_1"
    THEN IF Truthy(self.criteria_url) THEN External(self.criteria_url)
         ELSE Reverse("badgeclass_criteria", EntityId("BadgeClass", b))
    ELSE PutIf(Truthy(self.criteria_text),
               PutIf(Truthy(self.criteria_url), <<>>, "id", self.criteria_url),
               "narrative", self.criteria_text)

\* the keys get_json sets before the source url
BadgeClassHead(self, b, obi_version, use_canonical_id) ==
    PutIf(self.image,
          ("@context" :> get_obi_context(obi_version))
          @@ ("type" :> "BadgeClass")
          @@ ("id" :> VersionedId(jsonld_id(self, "badgeclass_json", "BadgeClass", b),
                                  obi_version, use_canonical_id))
          @@ ("name" :> self.name)
          @@ ("description" :> OrEmpty(self.description))
          @@ ("issuer" :> VersionedId(jsonld_id(issuers[self.issuer], "issuer_json",
                                                "Issuer", self.issuer),
                                      obi_version, use_canonical_id))
          @@ ("criteria" :> Criteria(self, b, obi_version)),
          "image",
          ImageValue(self.original_json,
                     Reverse("badgeclass_image", EntityId("BadgeClass", b))))

\* "alignment / tags" under "if obi_version == '2_0':"
AlignmentAndTags(json, b, obi_version) ==
    IF obi_version = "2_0"
    THEN Put(Put(json, "alignment",
                 [k \in 1..Len(alignments[b]) |-> Alignment_get_json(alignments[b][k])]),
             "tags", [k \in 1..Len(tags[b]) |-> tags[b][k].name])
    ELSE json

BadgeClassDoc(self, b, obi_version, include_extra, use_canonical_id) ==
    IncludeExtra(
        PutExtensions(
            AlignmentAndTags(
                SourceUrlKeys(BadgeClassHead(self, b, obi_version, use_canonical_id),
                              self, obi_version,
                              Reverse("badgeclass_json", EntityId("BadgeClass", b))),
                b, obi_version),
            extensions[<<"BadgeClass", b>>]),
        include_extra, self.original_json, BadgeClassExcluded)

\* the image block tests "original_json is not None": nothing here raises
BadgeClass_get_json(b, obi_version, include_extra, use_canonical_id) ==
    Return(BadgeClassDoc(badgeclasses[b], b, obi_version, include_extra,
                         use_canonical_id))

----------------------------------------------------------------------------
(* BadgeInstance.get_json                                                  *)

BadgeInstanceExcluded == {"@context", "id", "type", "uid", "recipient", "badge",
                          "issuedOn", "image", "evidence", "narrative", "revoked",
                          "revocationReason", "verify", "verification"}

public_url(a) == Reverse("badgeinstance_json", EntityId("Assertion", a))

\* BadgeInstance.evidence_url: the single evidence URL of OBI 1.x, or None
evidence_url(a) ==
    IF Len(evidence[a]) > 1 THEN public_url(a)
    ELSE IF Len(evidence[a]) = 1 /\ Truthy(evidence[a][1].evidence_url)
    THEN External(evidence[a][1].evidence_url)
    ELSE IF Len(evidence[a]) = 1 THEN public_url(a)
    ELSE NoUrl

\* BadgeInstanceEvidence.get_json
Evidence_get_json(row) ==
    PutIf(Truthy(row.narrative),
          PutIf(Truthy(row.evidence_url), "type" :> <<"Evidence">>, "id",
                row.evidence_url),
          "narrative", row.narrative)

RevokedKeys == {"@context", "type", "id", "revoked", "revocationReason"}

\* "if self.revoked:" of get_json
IsRevoked(self) == self.revoked

\* the document get_json returns for a revoked assertion
RevokedJson(self, a, obi_version, use_canonical_id) ==
    ("@context" :> get_obi_context(obi_version))
    @@ ("type" :> "Assertion")
    @@ ("id" :> VersionedId(jsonld_id(self, "badgeinstance_json", "Assertion", a),
                            obi_version, use_canonical_id))
    @@ ("revoked" :> self.revoked)
    @@ ("revocationReason" :> OrEmpty(self.revocation_reason))

\* json['badge']: the badge class id, or its document with the issuer's inside
Badge(self, obi_version, expand_badgeclass, expand_issuer, badge_json, issuer_json) ==
    IF expand_badgeclass
    THEN IF expand_issuer THEN Put(badge_json.doc, "issuer", issuer_json.doc)
         ELSE badge_json.doc
    ELSE add_obi_version_ifneeded(
             jsonld_id(badgeclasses[self.badgeclass], "badgeclass_json", "BadgeClass",
                       self.badgeclass), obi_version)

\* a rendering that sets the keys of both versions
VerificationBoth(json, a, obi_version, use_canonical_id) ==
    Put(Put(Put(json, "uid", EntityId("Assertion", a)), "verify",
            [url |-> VersionedId(public_url(a), obi_version, use_canonical_id),
             type |-> "hosted"]),
        "verification", [type |-> "HostedBadge"])

\* uid and verify for 1_1, verification for 2_0
Verification(json, a, obi_version, use_canonical_id) ==
    IF obi_version = "1_1"
    THEN Put(Put(json, "uid", EntityId("Assertion", a)), "verify",
             [url |-> VersionedId(public_url(a), obi_version, use_canonical_id),
              type |-> "hosted"])
    ELSE IF obi_version = "2_0"
    THEN Put(json, "verification", [type |-> "HostedBadge"])
    ELSE json

\* "evidence" under "if self.evidence_url:"
EvidenceKeys(json, a, obi_version, url) ==
    IF url = NoUrl THEN json
    ELSE IF obi_version = "1_1" THEN Put(json, "evidence", url)
    ELSE IF obi_version = "2_0"
    THEN Put(json, "evidence",
             [k \in 1..Len(evidence[a]) |-> Evidence_get_json(evidence[a][k])])
    ELSE json

\* narrative, issuedOn, expires
Dates(json, self, obi_version) ==
    PutIf(Truthy(self.expires_at),
          Put(PutIf(Truthy(self.narrative) /\ obi_version = "2_0", json,
                    "narrative", self.narrative),
              "issuedOn", self.issued_on),
          "expires", self.expires_at)

RecipientPlain(self) ==
    ("hashed" :> <<"false">>) @@ ("type" :> self.recipient_type)
    @@ ("identity" :> self.recipient_identifier)

\* json['recipient']
Recipient(self) ==
    IF self.hashed
    THEN PutIf(Truthy(self.salt),
               ("hashed" :> <<"true">>) @@ ("type" :> self.recipient_type)
               @@ ("identity" :> generate_sha256_hashstring(
                                     self.recipient_identifier, self.salt)),
               "salt", self.salt)
    ELSE ("hashed" :> <<"false">>) @@ ("type" :> self.recipient_type)
         @@ ("identity" :> self.recipient_identifier)

\* the keys get_json sets before its "if self.revoked:"
InstanceHead(self, a, obi_version, badge) ==
    ("@context" :> get_obi_context(obi_version))
    @@ ("type" :> "Assertion")
    @@ ("id" :> add_obi_version_ifneeded(
                    jsonld_id(self, "badgeinstance_json", "Assertion", a),
                    obi_version))
    @@ ("badge" :> badge)
    @@ ("image" :> ImageValue(self.original_json,
                              Reverse("badgeinstance_image", EntityId("Assertion", a))))

\* the document of an assertion that is not revoked
\* parse_original_datetime(value): the date as ISO 8601 text in UTC, ending in Z
parse_original_datetime(value) == [value EXCEPT !.s = @ \o <<"Z">>]

\* str(value).endswith('Z')
EndsWithZ(value) == Len(value.s) > 0 /\ value.s[Len(value.s)] = "Z"

\* BadgeInstance.get_filtered_json: the filtered original JSON with an
\* 'expires' that does not end in Z rewritten
BadgeInstance_get_filtered_json(original_json) ==
    LET filtered == get_filtered_json(original_json, BadgeInstanceExcluded)
    IN  IF /\ ~filtered.none
           /\ "expires" \in DOMAIN filtered.doc
           /\ filtered.doc["expires"].s # <<>>
           /\ ~EndsWithZ(filtered.doc["expires"])
        THEN [filtered EXCEPT !.doc["expires"] = parse_original_datetime(@)]
        ELSE filtered

\* "pass through imported json" of BadgeInstance.get_json
InstanceIncludeExtra(json, include_extra, original_json) ==
    IF include_extra
    THEN PassThrough(json, BadgeInstance_get_filtered_json(original_json))
    ELSE json

InstanceDoc(self, a, obi_version, include_extra, use_canonical_id, badge) ==
    InstanceIncludeExtra(
        PutExtensions(
            Put(Dates(EvidenceKeys(
                          SourceUrlKeys(
                              Verification(InstanceHead(self, a, obi_version, badge),
                                           a, obi_version, use_canonical_id),
                              self, obi_version, public_url(a)),
                          a, obi_version, evidence_url(a)),
                      self, obi_version),
                "recipient", Recipient(self)),
            extensions[<<"Assertion", a>>]),
        include_extra, self.original_json)

\* get_json in the order of its statements: the image block, the expansion
\* of the badge class and the issuer, then the revoked document or the rest
Assemble(self, a, obi_version, expand_badgeclass, expand_issuer, include_extra, use_canonical_id, badge_json, issuer_json) ==
    IF ImageInfoRaises(self.original_json) THEN Raise
    ELSE IF expand_badgeclass /\ badge_json.raised THEN Raise
    ELSE IF expand_badgeclass /\ expand_issuer /\ issuer_json.raised THEN Raise
    ELSE IF IsRevoked(self)
    THEN Return(RevokedJson(self, a, obi_version, use_canonical_id))
    ELSE Return(InstanceDoc(self, a, obi_version, include_extra, use_canonical_id,
                            Badge(self, obi_version, expand_badgeclass,
                                  expand_issuer, badge_json, issuer_json)))

\* get_json of the BadgeInstance object self whose id is a
InstanceJson(self, a, obi_version, expand_badgeclass, expand_issuer, include_extra, use_canonical_id) ==
    Assemble(self, a, obi_version, expand_badgeclass, expand_issuer, include_extra,
             use_canonical_id,
             BadgeClass_get_json(self.badgeclass, obi_version, include_extra, FALSE),
             Issuer_get_json(self.issuer, obi_version, include_extra, FALSE))

BadgeInstance_get_json(a, obi_version, expand_badgeclass, expand_issuer, include_extra, use_canonical_id) ==
    InstanceJson(instances[a], a, obi_version, expand_badgeclass, expand_issuer,
                 include_extra, use_canonical_id)

----------------------------------------------------------------------------
(* Rows                                                                    *)

\* a BadgeInstance that is not persisted, with the model's field defaults
BlankInstance ==
    [exists |-> FALSE, badgeclass |-> 1, issuer |-> 1,
     recipient_identifier |-> EmptyStr, recipient_type |-> <<"email">>,
     hashed |-> TRUE, salt |-> None, revoked |-> FALSE,
     revocation_reason |-> None, image |-> NoFile, source_url |-> None,
     original_json |-> OJNone, expires_at |-> None, narrative |-> None,
     issued_on |-> <<"2024-01-15T00:00:00">>]

BlankBadgeClass ==
    [exists |-> FALSE, issuer |-> 1, name |-> <<"badge">>, description |-> None,
     image |-> TRUE, criteria_url |-> None, criteria_text |-> None,
     source_url |-> None, original_json |-> OJNone]

\* created_by is a user, or 0 when it is not known
BlankIssuer ==
    [exists |-> FALSE, created_by |-> 0, name |-> <<"issuer">>, url |-> None,
     email |-> None, description |-> None, category |-> <<"n/a">>,
     image |-> FALSE, source_url |-> None, original_json |-> OJNone]

\* what an operation reports: its name, the entity, whether it returned
\* (ok) or raised and the message raised, the argument (a revocation
\* reason, a recipient, a desired list), for a setter the rows created and
\* deleted, the row writes attempted and the removals skipped, and for a
\* save of a new instance the salt of the object the caller holds; result
\* is what a call returns when it returns a truth value, image the file a
\* call returns
Report(op, id, ok) ==
    [op |-> op, id |-> id, ok |-> ok, error |-> "", arg |-> EmptyStr,
     created |-> 0, deleted |-> 0, writes |-> 0, skipped |-> 0, salt |-> None,
     result |-> FALSE, image |-> NoFile, publishes |-> 0, fresh |-> TRUE]

----------------------------------------------------------------------------
(* BadgeInstance: save, revoke, rebake                                     *)

\* blacklist.api_query_is_in_blacklist(recipient_type, recipient_identifier)
NoBlacklist == {}
Blacklisted == {<<"blocked@example.com">>}
Recipients == {<<"a@example.com">>, <<"blocked@example.com">>}
Salts == {<<"salt1">>, <<"salt2">>}
Reasons == {None, EmptyStr, <<"bad">>, <<"worse">>}

\* default_storage.get_available_name: a name no stored file has
FreshFile == CHOOSE f \in Files \ storage : \A g \in Files \ storage : f <= g

NormalizeAlwaysNull(self) == [self EXCEPT !.revocation_reason = None]

\* "if self.revoked is False: self.revocation_reason = None" of save
NormalizeReason(self) ==
    IF self.revoked = FALSE THEN [self EXCEPT !.revocation_reason = None] ELSE self

AlwaysSalt(self, pk_is_none, salt) == [self EXCEPT !.salt = salt]

\* "if self.pk is None: ... self.salt = uuid.uuid4().hex" of save
SaveSalt(self, pk_is_none, salt) ==
    IF pk_is_none THEN [self EXCEPT !.salt = salt] ELSE self

\* BadgeClass.issue -> BadgeInstance.objects.create -> save() of a new
\* instance (pk is None): the blacklist check, the salt, the baked image
Issue(a, b, recipient, hashed, source_url, original_json, salt, expires_at, image_given) ==
    LET new == [BlankInstance EXCEPT !.badgeclass = b,
                                     !.issuer = badgeclasses[b].issuer,
                                     !.recipient_identifier = recipient,
                                     !.hashed = hashed,
                                     !.source_url = source_url,
                                     !.original_json = original_json,
                                     !.expires_at = expires_at]
        salted == SaveSalt(new, TRUE, salt)
        baked == InstanceJson(salted, a, UNVERSIONED_BAKED_VERSION, FALSE, FALSE,
                              TRUE, FALSE)
        ok == recipient \notin Blacklisted /\ (image_given \/ ~baked.raised)
    IN  /\ ~instances[a].exists
        /\ badgeclasses[b].exists
        /\ Files \ storage # {}
        /\ instances' = [instances EXCEPT ![a] =
               IF ok THEN NormalizeReason([salted EXCEPT !.exists = TRUE,
                                                         !.image = FreshFile])
               ELSE @]
        /\ storage' = IF ok THEN storage \cup {FreshFile} ELSE storage
        /\ last' = [Report("issue", a, ok) EXCEPT
                        !.arg = recipient,
                        !.salt = IF recipient \in Blacklisted THEN new.salt
                                 ELSE salted.salt,
                        !.error = IF recipient \in Blacklisted
                                  THEN "You may not award this badge to this recipient."
                                  ELSE ""]
        /\ UNCHANGED <<issuers, badgeclasses, children, collection, publishing, units, identities, bakedimages, rebaking>>

\* save() of a persisted instance loaded from its row
Save(a) ==
    /\ instances[a].exists
    /\ \E salt \in Salts :
           instances' = [instances EXCEPT ![a] =
                            NormalizeReason(SaveSalt(@, FALSE, salt))]
    /\ last' = Report("save", a, TRUE)
    /\ UNCHANGED <<issuers, badgeclasses, children, storage, collection, publishing, units, identities, bakedimages, rebaking>>

AlreadyRevokedNever(self) == FALSE

\* "if self.revoked:" of revoke
AlreadyRevoked(self) == self.revoked

MissingReasonOnlyNone(revocation_reason) == revocation_reason = None

\* "if not revocation_reason:" of revoke
MissingReason(revocation_reason) == ~Truthy(revocation_reason)

KeepImageName(self) == self

\* self.image.delete(): FieldFile.delete removes the stored file, clears
\* the name and saves the instance (revoke saves it once more); it does
\* nothing for an empty field
DeleteImage(self) == [self EXCEPT !.image = NoFile]

Revoke(a, revocation_reason) ==
    LET self == instances[a]
        ok == ~AlreadyRevoked(self) /\ ~MissingReason(revocation_reason)
        revoked == [self EXCEPT !.revoked = TRUE,
                                !.revocation_reason = revocation_reason]
    IN  /\ self.exists
        /\ instances' = [instances EXCEPT ![a] =
               IF ok THEN NormalizeReason(DeleteImage(revoked)) ELSE @]
        /\ storage' = IF ok THEN storage \ {self.image} ELSE storage
        /\ last' = [Report("revoke", a, ok) EXCEPT
                        !.arg = revocation_reason,
                        !.error = IF AlreadyRevoked(self)
                                  THEN "Assertion is already revoked"
                                  ELSE IF MissingReason(revocation_reason)
                                  THEN "revocation_reason is required"
                                  ELSE ""]
        /\ UNCHANGED <<issuers, badgeclasses, children, collection, publishing, units, identities, bakedimages, rebaking>>

\* rebake(obi_version, save): bake, store the new file, delete the old one,
\* point image at the new name.  default_storage.delete of the empty name
\* of an imageless (revoked) instance raises or does nothing, as the
\* storage backend decides.
Rebake(a, obi_version, save, empty_name_raises) ==
    LET self == instances[a]
        json == BadgeInstance_get_json(a, obi_version, FALSE, FALSE, TRUE, FALSE)
        stops == self.image = NoFile /\ empty_name_raises
        ok == ~json.raised /\ ~stops
    IN  /\ self.exists
        /\ Files \ storage # {}
        /\ self.image # NoFile => ~empty_name_raises
        /\ storage' = IF json.raised THEN storage
                      ELSE IF stops THEN storage \cup {FreshFile}
                      ELSE (storage \cup {FreshFile}) \ {self.image}
        /\ instances' = [instances EXCEPT ![a] =
               IF ok /\ save THEN NormalizeReason([@ EXCEPT !.image = FreshFile])
               ELSE @]
        /\ last' = Report("rebake", a, ok)
        /\ UNCHANGED <<issuers, badgeclasses, children, collection, publishing, units, identities, bakedimages, rebaking>>

----------------------------------------------------------------------------
(* The reconciliation setters as operations                                *)

IssuerIds == {1}
BadgeClassIds == {1, 2}
InstanceIds == 1..NumInstances
EntityKeys == ({"Issuer"} \X IssuerIds) \cup ({"BadgeClass"} \X BadgeClassIds)
              \cup ({"Assertion"} \X InstanceIds)

SetterReport(op, id, acc, value) ==
    [Report(op, id, ~acc.raised) EXCEPT !.arg = value,
                                        !.created = acc.created,
                                        !.deleted = acc.deleted,
                                        !.writes = acc.n,
                                        !.skipped = acc.skipped,
                                        !.publishes = acc.publishes,
                                        !.fresh = (acc.published = acc.rows)]

\* failAt names a write the call reaches, or is 0
Reaches(acc, failAt) == failAt = 0 \/ acc.raised

StaffItems(i, value, failAt) ==
    LET acc == staff_items(staff[i], value, failAt)
    IN  /\ issuers[i].exists
        /\ Reaches(acc, failAt)
        /\ staff' = [staff EXCEPT ![i] = Atomic(@, acc)]
        /\ last' = SetterReport("staff_items", i, acc, value)
        /\ UNCHANGED <<entities, extensions, alignments, tags, evidence, storage,
                       collection, publishing, units, identities, bakedimages, rebaking>>

\* the parent of the rows under key is persisted
EntityExists(key) ==
    CASE key[1] = "Issuer" -> issuers[key[2]].exists
      [] key[1] = "BadgeClass" -> badgeclasses[key[2]].exists
      [] OTHER -> instances[key[2]].exists

ExtensionItems(key, value, failAt) ==
    LET acc == extension_items(extensions[key], value, failAt)
    IN  /\ EntityExists(key)
        /\ Reaches(acc, failAt)
        /\ extensions' = [extensions EXCEPT ![key] = Atomic(@, acc)]
        /\ last' = SetterReport("extension_items", key, acc, value)
        /\ UNCHANGED <<entities, staff, alignments, tags, evidence, storage,
                       collection, publishing, units, identities, bakedimages, rebaking>>

AlignmentItems(b, value, failAt) ==
    LET acc == alignment_items(alignments[b], value, failAt)
    IN  /\ badgeclasses[b].exists
        /\ Reaches(acc, failAt)
        /\ alignments' = [alignments EXCEPT ![b] = Atomic(@, acc)]
        /\ last' = SetterReport("alignment_items", b, acc, value)
        /\ UNCHANGED <<entities, staff, extensions, tags, evidence, storage,
                       collection, publishing, units, identities, bakedimages, rebaking>>

TagItems(b, value, failAt) ==
    LET acc == tag_items(tags[b], value, failAt)
    IN  /\ badgeclasses[b].exists
        /\ Reaches(acc, failAt)
        /\ tags' = [tags EXCEPT ![b] = Atomic(@, acc)]
        /\ last' = SetterReport("tag_items", b, acc, value)
        /\ UNCHANGED <<entities, staff, extensions, alignments, evidence, storage,
                       collection, publishing, units, identities, bakedimages, rebaking>>

EvidenceItems(a, value, failAt) ==
    LET acc == evidence_items(evidence[a], value, failAt)
    IN  /\ instances[a].exists
        /\ Reaches(acc, failAt)
        /\ evidence' = [evidence EXCEPT ![a] = Atomic(@, acc)]
        /\ last' = SetterReport("evidence_items", a, acc, value)
        /\ UNCHANGED <<entities, staff, extensions, alignments, tags, storage,
                       collection, publishing, units, identities, bakedimages, rebaking>>

\* Issuer.save: the row is saved, then "if no owner staff records exist,
\* create one for created_by"; IssuerStaff is unique in (issuer, user), so
\* the create raises when created_by is staff in another role
IssuerSave(i, created_by) ==
    LET self == IF issuers[i].exists THEN issuers[i]
                ELSE [BlankIssuer EXCEPT !.exists = TRUE, !.created_by = created_by]
        wanted == Len(owners(staff[i])) < 1 /\ self.created_by # 0
        clash == \E k \in DOMAIN staff[i] : staff[i][k].user = self.created_by
    IN  /\ issuers[i].exists => created_by = issuers[i].created_by
        /\ issuers' = [issuers EXCEPT ![i] = self]
        /\ staff' = [staff EXCEPT ![i] =
               IF wanted /\ ~clash
               THEN Append(@, [user |-> self.created_by, role |-> ROLE_OWNER])
               ELSE @]
        /\ last' = Report("issuer_save", i, ~(wanted /\ clash))
        /\ UNCHANGED <<badgeclasses, instances, extensions, alignments, tags,
                       evidence, storage, collection, publishing, units, identities, bakedimages, rebaking>>

----------------------------------------------------------------------------
(* BadgeClass.delete and Issuer.delete                                     *)

\* expires_at__gt = timezone.now()
Past == <<"2020-01-01T00:00:00">>
Future == <<"2999-01-01T00:00:00">>
NotExpired(expires_at) == expires_at = None \/ expires_at = Future

\* the rows a delete and its cascade reach
Db == [badgeclasses |-> badgeclasses, instances |-> instances,
       extensions |-> extensions, alignments |-> alignments, tags |-> tags,
       evidence |-> evidence]

\* on_delete=CASCADE from the instances in gone, and from the badge classes in bcs
Cascade(db, bcs, gone) ==
    [badgeclasses |-> [b \in BadgeClassIds |->
                          IF b \in bcs THEN BlankBadgeClass ELSE db.badgeclasses[b]],
     instances |-> [a \in InstanceIds |->
                       IF a \in gone THEN BlankInstance ELSE db.instances[a]],
     extensions |-> [k \in EntityKeys |->
                        IF \/ k[1] = "BadgeClass" /\ k[2] \in bcs
                           \/ k[1] = "Assertion" /\ k[2] \in gone
                        THEN <<>> ELSE db.extensions[k]],
     alignments |-> [b \in BadgeClassIds |->
                        IF b \in bcs THEN <<>> ELSE db.alignments[b]],
     tags |-> [b \in BadgeClassIds |-> IF b \in bcs THEN <<>> ELSE db.tags[b]],
     evidence |-> [a \in InstanceIds |->
                      IF a \in gone THEN <<>> ELSE db.evidence[a]]]

ProtectedWhateverExpiry(db, b) ==
    \E a \in InstanceIds :
        /\ db.instances[a].exists
        /\ db.instances[a].badgeclass = b
        /\ db.instances[a].revoked = FALSE

\* badgeinstances.filter(revoked=False).filter(
\*     Q(expires_at__isnull=True) | Q(expires_at__gt=timezone.now())).exists()
BadgeClassProtected(db, b) ==
    \E a \in InstanceIds :
        /\ db.instances[a].exists
        /\ db.instances[a].badgeclass = b
        /\ db.instances[a].revoked = FALSE
        /\ NotExpired(db.instances[a].expires_at)

BadgeClass_delete(db, b) ==
    IF BadgeClassProtected(db, b) THEN [db |-> db, raised |-> TRUE]
    ELSE [db |-> Cascade(db, {b}, {a \in InstanceIds :
                                      /\ db.instances[a].exists
                                      /\ db.instances[a].badgeclass = b}),
          raised |-> FALSE]

HasNoAssertions(db, i) == FALSE

\* Issuer.has_nonrevoked_assertions
has_nonrevoked_assertions(db, i) ==
    \E a \in InstanceIds :
        /\ db.instances[a].exists
        /\ db.instances[a].issuer = i
        /\ db.instances[a].revoked = FALSE

RECURSIVE DeleteBadgeClasses(_, _, _)
\* for bc in self.cached_badgeclasses(): bc.delete(), in created_at order
DeleteBadgeClasses(res, i, b) ==
    IF res.raised \/ b \notin BadgeClassIds THEN res
    ELSE IF res.db.badgeclasses[b].exists /\ res.db.badgeclasses[b].issuer = i
    THEN DeleteBadgeClasses(BadgeClass_delete(res.db, b), i, b + 1)
    ELSE DeleteBadgeClasses(res, i, b + 1)

SetDb(db) ==
    /\ badgeclasses' = db.badgeclasses
    /\ instances' = db.instances
    /\ extensions' = db.extensions
    /\ alignments' = db.alignments
    /\ tags' = db.tags
    /\ evidence' = db.evidence

BadgeClassDelete(b) ==
    LET res == BadgeClass_delete(Db, b)
    IN  /\ badgeclasses[b].exists
        /\ SetDb(res.db)
        /\ last' = Report("badgeclass_delete", b, ~res.raised)
        \* on_delete=CASCADE of BadgeInstanceBakedImage.badgeinstance
        /\ bakedimages' = [k \in DOMAIN bakedimages |->
                               IF instances'[k[1]].exists THEN bakedimages[k]
                               ELSE [exists |-> FALSE, revoked |-> FALSE, rows |-> 0]]
        /\ UNCHANGED <<issuers, staff, storage, collection, publishing, units, identities, rebaking>>

\* Issuer.delete: the guard, the badge classes one by one, the issuer row
\* with its cascade (staff, issuer extensions), the membership records
IssuerDelete(i) ==
    LET protected == has_nonrevoked_assertions(Db, i)
        res == DeleteBadgeClasses([db |-> Db, raised |-> FALSE], i, 1)
        ok == ~protected /\ ~res.raised
        final == IF ok
                 THEN Cascade(res.db, {},
                              {a \in InstanceIds : /\ res.db.instances[a].exists
                                                   /\ res.db.instances[a].issuer = i})
                 ELSE res.db
    IN  /\ issuers[i].exists
        /\ IF protected
           THEN UNCHANGED <<issuers, badgeclasses, instances, staff, extensions,
                            alignments, tags, evidence>>
           ELSE /\ SetDb([final EXCEPT !.extensions =
                            IF ok THEN [@ EXCEPT ![<<"Issuer", i>>] = <<>>] ELSE @])
                /\ issuers' = IF ok THEN [issuers EXCEPT ![i] = BlankIssuer]
                              ELSE issuers
                /\ staff' = IF ok THEN [staff EXCEPT ![i] = <<>>] ELSE staff
        /\ last' = Report("issuer_delete", i, ok)
        \* on_delete=CASCADE of BadgeInstanceBakedImage.badgeinstance
        /\ bakedimages' = [k \in DOMAIN bakedimages |->
                               IF instances'[k[1]].exists THEN bakedimages[k]
                               ELSE [exists |-> FALSE, revoked |-> FALSE, rows |-> 0]]
        /\ UNCHANGED <<storage, collection, publishing, units, identities, rebaking>>

----------------------------------------------------------------------------
(* The life of an assertion: issue, save, revoke, rebake, reconcile        *)

Owner1 == [user |-> 1, role |-> ROLE_OWNER]

\* no recipient identity record (CachedEmailAddress, UserRecipientIdentifier),
\* no BadgeInstanceBakedImage row and no rebake call under way
\* the units of work that run side by side, each with what it has read and
\* not yet written back; none has begun
Units == {1, 2}
NoUnits == [u \in Units |-> [pc |-> "idle"]]

\* no publish is running
NotPublishing ==
    [stack |-> <<>>, n |-> 0, root |-> "", created_by |-> FALSE,
     recipient_user |-> FALSE, collections |-> 0]

Idle ==
    /\ identities = [k \in {<<"email">>, <<"url">>} \X Recipients |-> "none"]
    /\ bakedimages = [k \in InstanceIds \X Versions |-> [exists |-> FALSE, revoked |-> FALSE, rows |-> 0]]
    /\ rebaking = [pc |-> "idle", a |-> 0, old_name |-> NoFile, new_name |-> NoFile,
                   save |-> FALSE]
    /\ publishing = NotPublishing
    /\ units = NoUnits
Start == Report("start", 0, TRUE)

ExternalUrl == <<"https://origin.example/a">>
ImportedDoc ==
    ("image" :> JObject("caption" :> <<"c">>)) @@ ("extra" :> JString(<<"x">>))
    @@ ("recipient" :> JString(<<"other@example.com">>))
OriginalJsons == {OJNone, OJMalformed, OJDict(ImportedDoc)}

LifeEvidence == {<<>>, <<[narrative |-> <<"n">>, evidence_url |-> <<"https://e">>]>>}
LifeExtensions ==
    {<<>>, <<[name |-> "extensions:x", json |-> JString(<<"v1">>)]>>}

Init ==
    /\ \E oj \in {OJNone, OJMalformed} :
           issuers = [i \in IssuerIds |->
                         [BlankIssuer EXCEPT !.exists = TRUE, !.created_by = 1,
                                             !.original_json = oj]]
    /\ badgeclasses = [b \in BadgeClassIds |-> [BlankBadgeClass EXCEPT !.exists = TRUE]]
    /\ instances = [a \in InstanceIds |-> BlankInstance]
    /\ staff = [i \in IssuerIds |-> <<Owner1>>]
    /\ extensions = [k \in EntityKeys |-> <<>>]
    /\ alignments = [b \in BadgeClassIds |-> <<>>]
    /\ tags = [b \in BadgeClassIds |-> <<>>]
    /\ evidence = [a \in InstanceIds |-> <<>>]
    /\ storage = {}
    /\ collection = "none"
    /\ Idle
    /\ last = Start

Next ==
    \/ \E recipient \in Recipients, hashed \in BOOLEAN,
          source_url \in {None, ExternalUrl}, original_json \in OriginalJsons,
          salt \in Salts, image_given \in BOOLEAN :
           Issue(1, 1, recipient, hashed, source_url, original_json, salt, None,
                 image_given)
    \/ Save(1)
    \/ \E revocation_reason \in Reasons : Revoke(1, revocation_reason)
    \/ \E obi_version \in Versions, save \in BOOLEAN, empty_name_raises \in BOOLEAN :
           Rebake(1, obi_version, save, empty_name_raises)
    \/ \E value \in LifeEvidence, failAt \in 0..1 : EvidenceItems(1, value, failAt)
    \/ \E value \in LifeExtensions, failAt \in 0..1 :
           ExtensionItems(<<"Assertion", 1>>, value, failAt)

Spec == Init /\ [][Next]_vars

----------------------------------------------------------------------------
(* Reconciliation of the child collections                                 *)

Collections == {"staff", "extensions", "alignments", "tags", "evidence"}
FailPoints == 0..(MaxDesired + 1)

StaffLists == SeqsUpTo([cached_user : Users, role : Roles], MaxDesired)

ExtensionNames == {"extensions:x", "extensions:y"}
ExtensionDicts ==
    {value \in SeqsUpTo([name : ExtensionNames,
                         json : {JString(<<"v1">>), JString(<<"v2">>)}], MaxDesired) :
        \A j, k \in DOMAIN value : value[j].name = value[k].name => j = k}

\* a descriptor carries target_name and target_url, the two fields that
\* BadgeClassAlignment declares without null, blank or default; the other
\* three may be left out, null, empty or text
NameAndUrl == [target_name |-> <<"n">>, target_url |-> <<"u">>]
AlignmentDescriptors ==
    {NameAndUrl,
     NameAndUrl @@ [target_description |-> None],
     NameAndUrl @@ [target_description |-> <<"None">>],
     NameAndUrl @@ [target_description |-> EmptyStr],
     NameAndUrl @@ [target_code |-> <<"c">>]}
AlignmentLists == SeqsUpTo(AlignmentDescriptors, MaxDesired)

TagLists == SeqsUpTo({<<"t1">>, <<"t2">>}, MaxDesired)

EvidenceDescriptors ==
    {[narrative |-> None, evidence_url |-> <<"u">>],
     [narrative |-> EmptyStr, evidence_url |-> <<"u">>],
     [narrative |-> <<"a", "-", "b">>, evidence_url |-> <<"u">>],
     [narrative |-> <<"a">>, evidence_url |-> <<"b", "-", "u">>],
     [narrative |-> <<"a">>, evidence_url |-> None]}
EvidenceLists == SeqsUpTo(EvidenceDescriptors, MaxDesired)

SavedIssuer == [BlankIssuer EXCEPT !.exists = TRUE, !.created_by = 1]
IssuedInstance ==
    [BlankInstance EXCEPT !.exists = TRUE, !.recipient_identifier = <<"a@example.com">>,
                          !.salt = <<"salt1">>, !.image = 1]

\* one collection is reconciled in a behavior; the staff of an issuer are
\* followed from before its first save, the other collections from an
\* issuer with a badge class and an assertion issued
InitRecon ==
    /\ collection \in Collections
    /\ issuers = [i \in IssuerIds |->
                     IF collection = "staff" THEN BlankIssuer ELSE SavedIssuer]
    /\ badgeclasses = [b \in BadgeClassIds |->
                          IF collection = "staff" \/ b # 1 THEN BlankBadgeClass
                          ELSE [BlankBadgeClass EXCEPT !.exists = TRUE]]
    /\ instances = [a \in InstanceIds |->
                       IF collection = "staff" \/ a # 1 THEN BlankInstance
                       ELSE IssuedInstance]
    /\ staff = [i \in IssuerIds |-> IF collection = "staff" THEN <<>> ELSE <<Owner1>>]
    /\ extensions = [k \in EntityKeys |-> <<>>]
    /\ alignments = [b \in BadgeClassIds |-> <<>>]
    /\ tags = [b \in BadgeClassIds |-> <<>>]
    /\ evidence = [a \in InstanceIds |-> <<>>]
    /\ storage = IF collection = "staff" THEN {} ELSE {1}
    /\ Idle
    /\ last = Start

NextRecon ==
    \/ /\ collection = "staff"
       /\ \E created_by \in 0..NumUsers : IssuerSave(1, created_by)
    \/ /\ collection = "staff"
       /\ \E value \in StaffLists, failAt \in FailPoints : StaffItems(1, value, failAt)
    \/ /\ collection = "extensions"
       /\ \E value \in ExtensionDicts, failAt \in FailPoints :
              ExtensionItems(<<"BadgeClass", 1>>, value, failAt)
    \/ /\ collection = "alignments"
       /\ \E value \in AlignmentLists, failAt \in FailPoints :
              AlignmentItems(1, value, failAt)
    \/ /\ collection = "tags"
       /\ \E value \in TagLists, failAt \in FailPoints : TagItems(1, value, failAt)
    \/ /\ collection = "evidence"
       /\ \E value \in EvidenceLists, failAt \in FailPoints :
              EvidenceItems(1, value, failAt)

SpecRecon == InitRecon /\ [][NextRecon]_vars

----------------------------------------------------------------------------
(* Deleting an issuer and its badge classes                                *)

InitDelete ==
    /\ issuers = [i \in IssuerIds |-> SavedIssuer]
    /\ badgeclasses = [b \in BadgeClassIds |-> [BlankBadgeClass EXCEPT !.exists = TRUE]]
    /\ instances = [a \in InstanceIds |-> BlankInstance]
    /\ staff = [i \in IssuerIds |-> <<Owner1>>]
    /\ extensions = [k \in EntityKeys |-> <<>>]
    /\ alignments = [b \in BadgeClassIds |-> <<>>]
    /\ tags = [b \in BadgeClassIds |-> <<[name |-> <<"t1">>]>>]
    /\ evidence = [a \in InstanceIds |-> <<>>]
    /\ storage = {}
    /\ collection = "none"
    /\ Idle
    /\ last = Start

NextDelete ==
    \/ \E a \in InstanceIds, b \in BadgeClassIds, expires_at \in {None, Past, Future} :
           Issue(a, b, <<"a@example.com">>, TRUE, None, OJNone, <<"salt1">>,
                 expires_at, FALSE)
    \/ \E a \in InstanceIds, revocation_reason \in {EmptyStr, <<"bad">>} :
           Revoke(a, revocation_reason)
    \/ \E b \in BadgeClassIds : BadgeClassDelete(b)
    \/ \E i \in IssuerIds : IssuerDelete(i)

SpecDelete == InitDelete /\ [][NextDelete]_vars

----------------------------------------------------------------------------
(* Revocation                                                              *)

\* C1: a revoke(reason) call on a non-revoked assertion with a non-empty
\* reason succeeds, and leaves the persisted assertion revoked with the
\* given reason and without its image: the image field is empty and the
\* file it named is gone from storage.
C1_RevokeSucceeds ==
    [][\A a \in InstanceIds :
          (/\ last'.op = "revoke" /\ last'.id = a
           /\ instances[a].exists
           /\ instances[a].revoked = FALSE
           /\ last'.arg # None /\ last'.arg # EmptyStr)
          => /\ last'.ok
             /\ instances'[a].revoked = TRUE
             /\ instances'[a].revocation_reason = last'.arg
             /\ instances'[a].image = NoFile
             /\ instances[a].image \notin storage']_vars

C1_Witness ==
    /\ last.op = "revoke" /\ last.ok /\ last.arg = <<"bad">>
    /\ instances[1].revoked = TRUE
    /\ instances[1].revocation_reason = <<"bad">>
    /\ instances[1].image = NoFile
    /\ storage = {}

\* C2: revoke(reason) raises a validation error exactly when the assertion
\* is already revoked or the reason is empty, the already-revoked message
\* taking precedence, and a revoke that raised leaves the persisted
\* assertion (revoked, revocation_reason, image) and the stored files as
\* they were.
C2_RevokeFailsExactlyWhen ==
    [][\A a \in InstanceIds :
          (last'.op = "revoke" /\ last'.id = a /\ instances[a].exists)
          => /\ ~last'.ok <=> (\/ instances[a].revoked = TRUE
                               \/ last'.arg = None \/ last'.arg = EmptyStr)
             /\ instances[a].revoked = TRUE
                    => last'.error = "Assertion is already revoked"
             /\ (instances[a].revoked = FALSE /\ ~last'.ok)
                    => last'.error = "revocation_reason is required"
             /\ ~last'.ok => (instances' = instances /\ storage' = storage)]_vars

C2_Witness ==
    /\ last.op = "revoke" /\ ~last.ok /\ last.arg = EmptyStr
    /\ last.error = "Assertion is already revoked"
    /\ instances[1].revoked = TRUE

\* C3: revocation is terminal: from a state in which the assertion is
\* revoked, every step (revoke, save, rebake, evidence or extension
\* reconciliation) leaves it revoked, and a revoke step raises.
C3_RevocationTerminal ==
    [][\A a \in InstanceIds :
          (instances[a].exists /\ instances[a].revoked = TRUE)
          => /\ instances'[a].exists
             /\ instances'[a].revoked = TRUE
             /\ (last'.op = "revoke" /\ last'.id = a) => ~last'.ok]_vars

C3_Witness ==
    /\ instances[1].revoked = TRUE
    /\ last.op = "rebake" /\ last.ok
    /\ instances[1].image # NoFile
    /\ evidence[1] # <<>>
    /\ extensions[<<"Assertion", 1>>] # <<>>

\* C4: every persisted BadgeInstance that is revoked has a non-empty
\* revocation_reason, and every one that is not revoked has a null one.
C4_ReasonIffRevoked ==
    \A a \in InstanceIds :
        instances[a].exists
        => /\ instances[a].revoked = TRUE
                  => (/\ instances[a].revocation_reason # None
                      /\ instances[a].revocation_reason # EmptyStr)
           /\ instances[a].revoked = FALSE => instances[a].revocation_reason = None

C4_Witness ==
    /\ instances[1].exists
    /\ instances[1].revoked = TRUE
    /\ instances[1].revocation_reason = <<"worse">>
    /\ last.op = "save"

\* C5: for a revoked BadgeInstance, get_json returns, for every version and
\* every combination of expand_badgeclass, expand_issuer, include_extra and
\* use_canonical_id, a document with exactly the keys @context, type, id,
\* revoked, revocationReason and revoked true, and the same result with the
\* expansion on and off, whatever extensions, evidence and original JSON
\* are stored.
C5_RevokedJsonOnly ==
    \A a \in InstanceIds :
        (instances[a].exists /\ instances[a].revoked = TRUE)
        => \A obi_version \in Versions, expand_badgeclass \in BOOLEAN,
              expand_issuer \in BOOLEAN, include_extra \in BOOLEAN,
              use_canonical_id \in BOOLEAN :
               /\ ~BadgeInstance_get_json(a, obi_version, expand_badgeclass,
                       expand_issuer, include_extra, use_canonical_id).raised
               /\ DOMAIN BadgeInstance_get_json(a, obi_version, expand_badgeclass,
                       expand_issuer, include_extra, use_canonical_id).doc
                  = RevokedKeys
               /\ BadgeInstance_get_json(a, obi_version, expand_badgeclass,
                       expand_issuer, include_extra, use_canonical_id).doc["revoked"]
                  = TRUE
               /\ BadgeInstance_get_json(a, obi_version, expand_badgeclass,
                       expand_issuer, include_extra, use_canonical_id)
                  = BadgeInstance_get_json(a, obi_version, FALSE, FALSE,
                       include_extra, use_canonical_id)

----------------------------------------------------------------------------
(* Staff and reconciliation                                                *)

SetterOps == {"staff_items", "extension_items", "alignment_items", "tag_items",
              "evidence_items"}

C7_OwnerRemovalRule ==
    [][(last'.op = "staff_items" /\ last'.ok)
       => LET before == staff[1]
              after == staff'[1]
              desired == {last'.arg[k].cached_user : k \in DOMAIN last'.arg}
              present == {after[k].user : k \in DOMAIN after}
              omittedOwners == {k \in DOMAIN before :
                                   /\ before[k].role = ROLE_OWNER
                                   /\ before[k].user \notin desired}
              otherOwner ==
                  \/ \E k \in DOMAIN before : /\ before[k].role = ROLE_OWNER
                                              /\ before[k].user \in desired
                  \/ \E k \in DOMAIN after :
                         /\ after[k].role = ROLE_OWNER
                         /\ \A j \in DOMAIN before : before[j].user # after[k].user
          IN  /\ \A k \in DOMAIN before :
                     (before[k].user \notin desired /\ before[k].role # ROLE_OWNER)
                     => before[k].user \notin present
              /\ otherOwner => \A k \in omittedOwners : before[k].user \notin present
              /\ ~otherOwner
                     => \A k \in omittedOwners :
                            (\E j \in DOMAIN after : after[j] = before[k])
                            <=> (\A m \in omittedOwners : m <= k)]_vars

C7_Witness ==
    /\ last.op = "staff_items" /\ last.ok
    /\ last.arg = <<>>
    /\ last.skipped = 1 /\ last.deleted = 1
    /\ staff[1] = <<[user |-> 1, role |-> ROLE_OWNER]>>

\* C7, as the claim has it: a staff_items call that omits the issuer's only
\* OWNER removes every other omitted member and leaves that OWNER row in
\* place, and a call that omits several OWNERs leaves exactly one of them.
C7_OnlyOwnerStays ==
    [][(last'.op = "staff_items" /\ last'.ok)
       => LET before == staff[1]
              after == staff'[1]
              desired == {last'.arg[k].cached_user : k \in DOMAIN last'.arg}
              allOwners == {k \in DOMAIN before : before[k].role = ROLE_OWNER}
              omittedOwners == {k \in allOwners : before[k].user \notin desired}
              kept == {k \in omittedOwners : \E j \in DOMAIN after : after[j] = before[k]}
          IN  /\ (Cardinality(allOwners) = 1 /\ omittedOwners = allOwners)
                     => /\ kept = allOwners
                        /\ \A k \in DOMAIN before :
                               (before[k].user \notin desired /\ k \notin allOwners)
                               => \A j \in DOMAIN after : after[j].user # before[k].user
              /\ Cardinality(omittedOwners) > 1 => Cardinality(kept) = 1]_vars

C9_AllOrNothing ==
    [][(last'.op \in SetterOps /\ ~last'.ok)
       => (children' = children /\ entities' = entities)]_vars

C9_Witness ==
    /\ last.op = "alignment_items" /\ ~last.ok
    /\ last.created = 2 /\ last.writes = 3
    /\ Len(alignments[1]) = 1

----------------------------------------------------------------------------
(* Deletion                                                                *)

\* C10: Issuer.delete raises the protected error and leaves the issuer, its
\* badge classes and its staff rows as they were whenever the issuer has a
\* BadgeInstance that is not revoked; when it has none, Issuer.delete
\* succeeds and the issuer is gone.
C10_IssuerDeleteGuard ==
    [][\A i \in IssuerIds :
          (last'.op = "issuer_delete" /\ last'.id = i)
          => IF \E a \in InstanceIds : /\ instances[a].exists
                                       /\ instances[a].issuer = i
                                       /\ instances[a].revoked = FALSE
             THEN /\ ~last'.ok
                  /\ issuers' = issuers
                  /\ badgeclasses' = badgeclasses
                  /\ staff' = staff
             ELSE /\ last'.ok
                  /\ ~issuers'[i].exists
                  /\ \A b \in BadgeClassIds : ~badgeclasses'[b].exists
                  /\ staff'[i] = <<>>]_vars

C10_Witness ==
    /\ last.op = "issuer_delete" /\ ~last.ok
    /\ issuers[1].exists
    /\ instances[1].exists /\ instances[1].revoked = TRUE
    /\ instances[2].exists /\ instances[2].revoked = FALSE
    /\ instances[2].expires_at = Past

\* C11: BadgeClass.delete raises the protected error and changes nothing
\* exactly when some BadgeInstance of the badge class is not revoked and
\* has no expires_at or one in the future; otherwise the badge class is
\* deleted.
C11_BadgeClassDeleteGuard ==
    [][\A b \in BadgeClassIds :
          (last'.op = "badgeclass_delete" /\ last'.id = b)
          => IF \E a \in InstanceIds :
                    /\ instances[a].exists
                    /\ instances[a].badgeclass = b
                    /\ instances[a].revoked = FALSE
                    /\ instances[a].expires_at \in {None, Future}
             THEN /\ ~last'.ok
                  /\ entities' = entities
                  /\ children' = children
                  /\ storage' = storage
             ELSE /\ last'.ok
                  /\ ~badgeclasses'[b].exists]_vars

C11_Witness ==
    /\ last.op = "badgeclass_delete" /\ last.id = 1 /\ ~last.ok
    /\ badgeclasses[1].exists
    /\ instances[1].exists /\ instances[1].badgeclass = 1
    /\ instances[1].revoked = FALSE /\ instances[1].expires_at = Past
    /\ instances[2].exists /\ instances[2].badgeclass = 1
    /\ instances[2].revoked = FALSE /\ instances[2].expires_at = Future

----------------------------------------------------------------------------
(* Recipient identity                                                      *)

\* C12: saving a new BadgeInstance for a blacklisted recipient raises the
\* validation error before a salt is generated, an image is baked or a row
\* is written: afterwards there is no BadgeInstance row and no image file.
C12_BlacklistedNotCreated ==
    [][(last'.op = "issue" /\ last'.arg = <<"blocked@example.com">>)
       => /\ ~last'.ok
          /\ last'.error = "You may not award this badge to this recipient."
          /\ last'.salt = None
          /\ ~instances'[last'.id].exists
          /\ instances' = instances
          /\ storage' = storage]_vars

C12_Witness ==
    /\ last.op = "issue" /\ ~last.ok
    /\ last.arg = <<"blocked@example.com">>
    /\ last.salt = None
    /\ ~instances[1].exists
    /\ storage = {}

\* C13: the document of an assertion that is not revoked has, for every
\* version and every flag, the recipient {hashed: true, type, identity: the
\* sha256 hash string of recipient_identifier and salt, salt} when hashed
\* is set, and {hashed: false, type, identity: recipient_identifier}
\* without a salt key when it is not.
C13_RenderedRecipient ==
    \A a \in InstanceIds :
        (instances[a].exists /\ instances[a].revoked = FALSE)
        => \A obi_version \in Versions, expand \in BOOLEAN,
              include_extra \in BOOLEAN, use_canonical_id \in BOOLEAN :
               ~BadgeInstance_get_json(a, obi_version, expand, expand,
                                       include_extra, use_canonical_id).raised
               => BadgeInstance_get_json(a, obi_version, expand, expand,
                      include_extra, use_canonical_id).doc["recipient"]
                  = IF instances[a].hashed
                    THEN [hashed |-> <<"true">>,
                          type |-> instances[a].recipient_type,
                          identity |-> generate_sha256_hashstring(
                              instances[a].recipient_identifier, instances[a].salt),
                          salt |-> instances[a].salt]
                    ELSE [hashed |-> <<"false">>,
                          type |-> instances[a].recipient_type,
                          identity |-> instances[a].recipient_identifier]

C13_Witness ==
    /\ last.op = "issue" /\ last.ok
    /\ instances[1].exists /\ instances[1].revoked = FALSE
    /\ instances[1].hashed
    /\ instances[1].recipient_identifier = <<"a@example.com">>
    /\ instances[1].salt = <<"salt2">>
    /\ instances[1].original_json = OJDict(ImportedDoc)
    /\ ~BadgeInstance_get_json(1, "2_0", TRUE, TRUE, TRUE, FALSE).raised

\* C14: the salt of an assertion is assigned when its first save creates
\* the row, and every later save, revoke, rebake and reconciliation leaves
\* it as it is, so the hashed identity rendered later is the same as long
\* as recipient_identifier is the same.
C14_SaltFixed ==
    [][\A a \in InstanceIds :
          /\ (~instances[a].exists /\ instances'[a].exists)
             => /\ last'.op = "issue"
                /\ Truthy(instances'[a].salt)
                /\ instances'[a].salt = last'.salt
          /\ instances[a].exists
             => /\ instances'[a].exists
                /\ instances'[a].salt = instances[a].salt
                /\ (instances'[a].recipient_identifier
                        = instances[a].recipient_identifier
                    /\ instances[a].hashed /\ instances'[a].hashed)
                   => Recipient(instances'[a]).identity
                      = Recipient(instances[a]).identity]_vars

C14_Witness ==
    /\ last.op = "save" /\ last.ok
    /\ instances[1].exists /\ instances[1].hashed
    /\ instances[1].revoked = TRUE
    /\ instances[1].salt = <<"salt2">>
    /\ evidence[1] # <<>>

----------------------------------------------------------------------------
(* Reading an assertion: pending, baked images, the steps of rebake        *)

PendingAsDocumented(self) ==
    identities[<<IF self.recipient_type = <<"email">> THEN <<"email">> ELSE <<"url">>,
                 self.recipient_identifier>>] # "verified"

\* BadgeInstance.pending: the identity record is looked up in
\* CachedEmailAddress for an email recipient and in UserRecipientIdentifier
\* otherwise
pending(self) ==
    LET existing_identifier ==
            identities[<<IF self.recipient_type = <<"email">> THEN <<"email">>
                         ELSE <<"url">>,
                         self.recipient_identifier>>]
    IN  IF existing_identifier = "none" THEN FALSE
        ELSE IF ~Truthy(self.source_url) THEN FALSE
        ELSE existing_identifier # "verified"

\* a recipient adds, verifies or removes an identifier (badgeuser.models)
SetIdentity(k, status) ==
    /\ rebaking.pc = "idle"
    /\ identities[k] # status
    /\ identities' = [identities EXCEPT ![k] = status]
    /\ last' = Report("set_identity", 0, TRUE)
    /\ UNCHANGED <<entities, children, storage, collection, publishing, units, bakedimages, rebaking>>

Pending(a) ==
    /\ rebaking.pc = "idle"
    /\ instances[a].exists
    /\ last' = [Report("pending", a, TRUE) EXCEPT !.result = pending(instances[a])]
    /\ UNCHANGED <<entities, children, storage, collection, publishing, units, identities, bakedimages,
                   rebaking>>

AlwaysBake(a, obi_version) == FALSE

\* BadgeInstanceBakedImage.cached.get(badgeinstance=self, obi_version=...)
\* finds a row
HasBakedImage(a, obi_version) == bakedimages[<<a, obi_version>>].exists

\* get_baked_image_url(obi_version).  The unversioned request returns
\* self.image.url, which raises for an empty image field.  A versioned
\* request returns the stored BadgeInstanceBakedImage, or bakes the
\* expanded document into a new one; the row holds its blob, and revoked
\* says whether the document baked into it is the revoked one.
GetBakedImageUrl(a, obi_version) ==
    LET self == instances[a]
        json_to_bake == BadgeInstance_get_json(a, obi_version, TRUE, TRUE, TRUE, FALSE)
        unversioned == obi_version = UNVERSIONED_BAKED_VERSION
        found == HasBakedImage(a, obi_version)
        bakes == ~unversioned /\ ~found /\ ~json_to_bake.raised
        baked_image == IF bakes
                       THEN [exists |-> TRUE,
                             revoked |-> "revoked" \in DOMAIN json_to_bake.doc,
                             rows |-> 1]
                       ELSE bakedimages[<<a, obi_version>>]
        ok == IF unversioned THEN self.image # NoFile ELSE found \/ bakes
    IN  /\ rebaking.pc = "idle"
        /\ self.exists
        /\ bakedimages' = [bakedimages EXCEPT ![<<a, obi_version>>] = baked_image]
        /\ last' = [Report("get_baked_image_url", a, ok) EXCEPT
                        !.arg = <<obi_version>>,
                        !.created = IF bakes THEN 1 ELSE 0,
                        !.image = IF unversioned THEN self.image ELSE NoFile,
                        !.result = ok /\ ~unversioned /\ baked_image.revoked]
        /\ UNCHANGED <<entities, children, storage, collection, publishing, units, identities, rebaking>>

\* rebake, lines 1019-1027: bake the document and store it under a new name
RebakeStore(a, obi_version, save) ==
    LET json == BadgeInstance_get_json(a, obi_version, FALSE, FALSE, TRUE, FALSE)
    IN  /\ rebaking.pc = "idle"
        /\ instances[a].exists
        /\ Files \ storage # {}
        /\ storage' = IF json.raised THEN storage ELSE storage \cup {FreshFile}
        /\ rebaking' = IF json.raised THEN rebaking
                       ELSE [pc |-> "stored", a |-> a,
                             old_name |-> instances[a].image,
                             new_name |-> FreshFile, save |-> save]
        /\ last' = Report(IF json.raised THEN "rebake" ELSE "rebake_store", a,
                          ~json.raised)
        /\ UNCHANGED <<entities, children, collection, publishing, units, identities, bakedimages>>

\* rebake, line 1028: default_storage.delete(self.image.name); deleting the
\* empty name of an imageless instance raises or does nothing, as the
\* storage backend decides
RebakeDeleteOld(empty_name_raises) ==
    LET stops == rebaking.old_name = NoFile /\ empty_name_raises
    IN  /\ rebaking.pc = "stored"
        /\ rebaking.old_name # NoFile => ~empty_name_raises
        /\ storage' = storage \ {rebaking.old_name}
        /\ rebaking' = IF stops THEN [rebaking EXCEPT !.pc = "idle"]
                       ELSE [rebaking EXCEPT !.pc = "deleted"]
        /\ last' = Report(IF stops THEN "rebake" ELSE "rebake_delete", rebaking.a,
                          ~stops)
        /\ UNCHANGED <<entities, children, collection, publishing, units, identities, bakedimages>>

\* rebake, lines 1029-1031: self.image.name = new_name; if save: self.save()
RebakeSwap ==
    /\ rebaking.pc = "deleted"
    /\ instances' = [instances EXCEPT ![rebaking.a] =
           IF rebaking.save
           THEN NormalizeReason([@ EXCEPT !.image = rebaking.new_name])
           ELSE @]
    /\ rebaking' = [rebaking EXCEPT !.pc = "idle"]
    /\ last' = Report("rebake", rebaking.a, TRUE)
    /\ UNCHANGED <<issuers, badgeclasses, children, storage, collection, publishing, units, identities,
                   bakedimages>>

ImportedInstance ==
    [IssuedInstance EXCEPT !.recipient_type = <<"url">>, !.source_url = ExternalUrl,
                           !.hashed = FALSE]

\* an issuer with its badge classes; one assertion imported for a url
\* recipient, the other still to be issued
InitRead ==
    /\ \E oj \in {OJNone, OJMalformed} :
           issuers = [i \in IssuerIds |-> [SavedIssuer EXCEPT !.original_json = oj]]
    /\ badgeclasses = [b \in BadgeClassIds |-> [BlankBadgeClass EXCEPT !.exists = TRUE]]
    /\ instances = [a \in InstanceIds |->
                       IF a = 2 THEN ImportedInstance ELSE BlankInstance]
    /\ staff = [i \in IssuerIds |-> <<Owner1>>]
    /\ extensions = [k \in EntityKeys |-> <<>>]
    /\ alignments = [b \in BadgeClassIds |-> <<>>]
    /\ tags = [b \in BadgeClassIds |-> <<>>]
    /\ evidence = [a \in InstanceIds |-> <<>>]
    /\ storage = {1}
    /\ collection = "none"
    /\ Idle
    /\ last = Start

NextPending ==
    \/ \E source_url \in {None, EmptyStr, ExternalUrl}, hashed \in BOOLEAN :
           Issue(1, 1, <<"a@example.com">>, hashed, source_url, OJNone, <<"salt1">>,
                 None, FALSE)
    \/ \E a \in InstanceIds : Revoke(a, <<"bad">>)
    \/ \E status \in {"none", "unverified", "verified"},
          recipient_type \in {<<"email">>, <<"url">>}, recipient \in Recipients :
           SetIdentity(<<recipient_type, recipient>>, status)
    \/ \E a \in InstanceIds : Pending(a)

SpecPending == InitRead /\ [][NextPending]_vars

NextRead ==
    \/ /\ rebaking.pc = "idle"
       /\ Issue(1, 1, <<"a@example.com">>, TRUE, None, OJNone, <<"salt1">>, None, FALSE)
    \/ /\ rebaking.pc = "idle"
       /\ \E a \in InstanceIds : Revoke(a, <<"bad">>)
    \/ \E a \in InstanceIds, obi_version \in Versions : GetBakedImageUrl(a, obi_version)
    \/ \E save \in BOOLEAN : RebakeStore(2, CURRENT_OBI_VERSION, save)
    \/ \E empty_name_raises \in BOOLEAN : RebakeDeleteOld(empty_name_raises)
    \/ RebakeSwap

SpecRead == InitRead /\ [][NextRead]_vars

----------------------------------------------------------------------------
(* Baked images                                                            *)

\* C16, as the code has it: a versioned get_baked_image_url bakes and
\* stores a BadgeInstanceBakedImage only when the (assertion, version) has
\* none, and with one stored it returns that one and bakes and creates
\* nothing; the unversioned request never bakes, creates or changes
\* anything, returns the assertion's own image when it has one and raises
\* when it has none, as after a revoke.
C16_LazyBakedImageOrRaise ==
    [][last'.op = "get_baked_image_url"
       => LET a == last'.id
              obi_version == last'.arg[1]
              row == bakedimages[<<a, obi_version>>]
          IN  /\ entities' = entities /\ children' = children /\ storage' = storage
              /\ \A k \in DOMAIN bakedimages :
                     k # <<a, obi_version>> => bakedimages'[k] = bakedimages[k]
              /\ IF obi_version = UNVERSIONED_BAKED_VERSION
                 THEN /\ bakedimages' = bakedimages
                      /\ last'.created = 0
                      /\ last'.ok <=> instances[a].image # NoFile
                      /\ last'.image = instances[a].image
                 ELSE /\ last'.created = 1
                         <=> (~row.exists /\ bakedimages'[<<a, obi_version>>].exists)
                      /\ row.exists => /\ last'.ok
                                       /\ last'.created = 0
                                       /\ bakedimages' = bakedimages
                                       /\ last'.result = row.revoked
                      /\ last'.ok <=> bakedimages'[<<a, obi_version>>].exists]_vars

C16_Witness ==
    /\ last.op = "get_baked_image_url" /\ last.id = 1
    /\ last.arg = <<"1_1">> /\ last.ok /\ last.created = 0
    /\ bakedimages[<<1, "1_1">>].exists
    /\ instances[1].revoked = FALSE

\* C16, as the claim has it: in addition, the unversioned request always
\* returns the assertion's own image reference.
C16_UnversionedReturnsImage ==
    [][(last'.op = "get_baked_image_url"
        /\ last'.arg = <<UNVERSIONED_BAKED_VERSION>>)
       => /\ bakedimages' = bakedimages
          /\ last'.created = 0
          /\ last'.ok
          /\ last'.image = instances[last'.id].image
          /\ last'.image # NoFile]_vars

\* C17: at every step of a rebake call, the image reference of the
\* persisted assertion names a file that is in storage: the new file is
\* stored, the old file is removed, and the persisted reference is swapped
\* last, so it never names a deleted file.
C17_RebakeImageReadable ==
    rebaking.pc # "idle"
    => \/ instances[rebaking.a].image = NoFile
       \/ instances[rebaking.a].image \in storage

\* C18: a get_baked_image_url call on a revoked assertion that returns an
\* image returns one baked from the revoked document, never one baked
\* before the revocation.
C18_NoStaleBakedImage ==
    [][(/\ last'.op = "get_baked_image_url"
        /\ instances[last'.id].revoked = TRUE
        /\ last'.ok)
       => last'.result]_vars

----------------------------------------------------------------------------
(* Stored original JSON                                                    *)

\* C19: rendering an Issuer, a BadgeClass or a BadgeInstance whose stored
\* original_json is non-empty text that does not parse does not raise and
\* gives the document the entity renders to with no original_json.
C19_MalformedRendersAsAbsent ==
    \A obi_version \in Versions, include_extra \in BOOLEAN :
        /\ \A i \in IssuerIds :
               (issuers[i].exists /\ issuers[i].original_json = OJMalformed)
               => Issuer_get_json(i, obi_version, include_extra, FALSE)
                  = Return(IssuerDoc([issuers[i] EXCEPT !.original_json = OJNone],
                                     i, obi_version, include_extra, FALSE))
        /\ \A b \in BadgeClassIds :
               (badgeclasses[b].exists /\ badgeclasses[b].original_json = OJMalformed)
               => BadgeClass_get_json(b, obi_version, include_extra, FALSE)
                  = Return(BadgeClassDoc(
                               [badgeclasses[b] EXCEPT !.original_json = OJNone],
                               b, obi_version, include_extra, FALSE))
        /\ \A a \in InstanceIds :
               (instances[a].exists /\ instances[a].original_json = OJMalformed)
               => BadgeInstance_get_json(a, obi_version, FALSE, FALSE, include_extra,
                                         FALSE)
                  = InstanceJson([instances[a] EXCEPT !.original_json = OJNone], a,
                                 obi_version, FALSE, FALSE, include_extra, FALSE)

----------------------------------------------------------------------------
(* Publishing the parent of a child row                                    *)

----------------------------------------------------------------------------
(* Canonical and versioned ids                                             *)

\* C21: for an Issuer, a BadgeClass and a BadgeInstance (revoked or not) and
\* each version, a rendering that returns has id equal to the jsonld_id when
\* use_canonical_id is set and to the version-suffixed jsonld_id when it is
\* not.
C21_CanonicalIdHonoured ==
    \A obi_version \in Versions, use_canonical_id \in BOOLEAN :
        /\ \A i \in IssuerIds :
               LET r == Issuer_get_json(i, obi_version, FALSE, use_canonical_id)
               IN  (issuers[i].exists /\ ~r.raised)
                   => r.doc["id"] = VersionedId(jsonld_id(issuers[i], "issuer_json",
                                                          "Issuer", i),
                                                obi_version, use_canonical_id)
        /\ \A b \in BadgeClassIds :
               LET r == BadgeClass_get_json(b, obi_version, FALSE, use_canonical_id)
               IN  (badgeclasses[b].exists /\ ~r.raised)
                   => r.doc["id"] = VersionedId(jsonld_id(badgeclasses[b],
                                                          "badgeclass_json",
                                                          "BadgeClass", b),
                                                obi_version, use_canonical_id)
        /\ \A a \in InstanceIds :
               LET r == BadgeInstance_get_json(a, obi_version, FALSE, FALSE, FALSE,
                                               use_canonical_id)
               IN  (instances[a].exists /\ ~r.raised)
                   => r.doc["id"] = VersionedId(jsonld_id(instances[a],
                                                          "badgeinstance_json",
                                                          "Assertion", a),
                                                obi_version, use_canonical_id)

----------------------------------------------------------------------------
(* Rendering of imported entities                                          *)

\* an imported document: keys every kind excludes (id, image), a key no
\* rendering computes (extra), keys some renderings compute without
\* excluding them (slug, tags, expires) and the name of an extension
RenderedImport ==
    ("id" :> JString(<<"https://origin.example/old">>))
    @@ ("image" :> JObject("caption" :> <<"c">>))
    @@ ("extra" :> JString(<<"x">>))
    @@ ("slug" :> JString(<<"imported-slug">>))
    @@ ("tags" :> JString(<<"imported-tags">>))
    @@ ("expires" :> JString(<<"2030-01-01T00:00:00">>))
    @@ ("extensions:x" :> JString(<<"imported-extension">>))
RenderOriginals == {OJNone, OJDict(RenderedImport)}
OneEvidence == [narrative |-> <<"n">>, evidence_url |-> <<"https://e">>]
RenderEvidence == {<<>>, <<OneEvidence>>, <<OneEvidence, [OneEvidence EXCEPT !.evidence_url = None]>>}
\* stored extension rows: none, one with a conventional name, one named id
RenderExtensions ==
    {<<>>,
     <<[name |-> "extensions:x", original_json |-> json_dumps(JString(<<"v1">>))]>>,
     <<[name |-> "id", original_json |-> json_dumps(JString(<<"v2">>))]>>}
OptionalText == {None, <<"text">>}

InitRender ==
    /\ \E oj \in RenderOriginals :
           issuers = [i \in IssuerIds |->
                         [SavedIssuer EXCEPT !.original_json = oj,
                                             !.source_url = IF oj = OJNone THEN None
                                                            ELSE ExternalUrl]]
    /\ \E criteria_url \in OptionalText, criteria_text \in OptionalText,
          oj \in RenderOriginals :
           badgeclasses = [b \in BadgeClassIds |->
                              [BlankBadgeClass EXCEPT !.exists = TRUE,
                                                      !.criteria_url = criteria_url,
                                                      !.criteria_text = criteria_text,
                                                      !.original_json = oj]]
    /\ \E revoked \in BOOLEAN, expires_at \in {None, <<"2031-01-01T00:00:00">>},
          source_url \in {None, ExternalUrl}, oj \in RenderOriginals :
           instances = [a \in InstanceIds |->
                           IF a # 1 THEN BlankInstance
                           ELSE [IssuedInstance EXCEPT
                                     !.revoked = revoked,
                                     !.revocation_reason = IF revoked THEN <<"bad">>
                                                           ELSE None,
                                     !.image = IF revoked THEN NoFile ELSE 1,
                                     !.expires_at = expires_at,
                                     !.source_url = source_url,
                                     !.original_json = oj]]
    /\ staff = [i \in IssuerIds |-> <<Owner1>>]
    /\ \E rows \in RenderExtensions :
           extensions = [k \in EntityKeys |-> IF k[2] = 1 THEN rows ELSE <<>>]
    /\ alignments = [b \in BadgeClassIds |-> <<>>]
    /\ tags = [b \in BadgeClassIds |-> <<[name |-> <<"t1">>]>>]
    /\ evidence \in [InstanceIds -> RenderEvidence]
    /\ evidence[2] = <<>>
    /\ storage = IF instances[1].revoked THEN {} ELSE {1}
    /\ collection = "none"
    /\ Idle
    /\ last = Start

\* Issuer.get_json(obi_version, include_extra, use_canonical_id)
IssuerGetJson(i, obi_version, include_extra, use_canonical_id) ==
    /\ issuers[i].exists
    /\ last' = [Report("Issuer.get_json", i,
                       ~Issuer_get_json(i, obi_version, include_extra,
                                        use_canonical_id).raised)
                   EXCEPT !.arg = <<obi_version>>, !.result = include_extra]
    /\ UNCHANGED <<entities, children, storage, collection, publishing, units, identities, bakedimages, rebaking>>

\* BadgeClass.get_json(obi_version, include_extra, use_canonical_id)
BadgeClassGetJson(b, obi_version, include_extra, use_canonical_id) ==
    /\ badgeclasses[b].exists
    /\ last' = [Report("BadgeClass.get_json", b,
                       ~BadgeClass_get_json(b, obi_version, include_extra,
                                            use_canonical_id).raised)
                   EXCEPT !.arg = <<obi_version>>, !.result = include_extra]
    /\ UNCHANGED <<entities, children, storage, collection, publishing, units, identities, bakedimages, rebaking>>

\* BadgeInstance.get_json(obi_version, include_extra, use_canonical_id)
BadgeInstanceGetJson(a, obi_version, include_extra, use_canonical_id) ==
    /\ instances[a].exists
    /\ last' = [Report("BadgeInstance.get_json", a,
                       ~BadgeInstance_get_json(a, obi_version, FALSE, FALSE,
                                               include_extra, use_canonical_id).raised)
                   EXCEPT !.arg = <<obi_version>>, !.result = include_extra]
    /\ UNCHANGED <<entities, children, storage, collection, publishing, units, identities, bakedimages, rebaking>>

NextRender ==
    \/ \E obi_version \in Versions, include_extra \in BOOLEAN, use_canonical_id \in BOOLEAN :
           IssuerGetJson(1, obi_version, include_extra, use_canonical_id)
    \/ \E obi_version \in Versions, include_extra \in BOOLEAN, use_canonical_id \in BOOLEAN :
           BadgeClassGetJson(1, obi_version, include_extra, use_canonical_id)
    \/ \E obi_version \in Versions, include_extra \in BOOLEAN, use_canonical_id \in BOOLEAN :
           BadgeInstanceGetJson(1, obi_version, include_extra, use_canonical_id)

SpecRender == InitRender /\ [][NextRender]_vars

----------------------------------------------------------------------------
(* Pass-through of imported JSON                                           *)

\* with is the rendering with include_extra, without the one without it:
\* the keys added are the original keys that are not excluded and not
\* computed, and no computed key changes its value
OnlyAppends(with, without, original_json, excluded_fields) ==
    LET original == get_original_json(original_json)
    IN  /\ with.raised = without.raised
        /\ ~with.raised
           => /\ DOMAIN with.doc
                 = DOMAIN without.doc
                   \cup (IF original.none THEN {}
                         ELSE DOMAIN original.doc \ excluded_fields)
              /\ \A k \in DOMAIN without.doc : with.doc[k] = without.doc[k]

\* C22: with include_extra every key of the original JSON that is neither
\* excluded for the entity kind nor in the computed output is added to the
\* rendering of an Issuer, a BadgeClass and a non-revoked BadgeInstance; no
\* key of the computed output changes its value, no excluded key is added,
\* and without include_extra no original key is added.
C22_PassThroughOnlyAppends ==
    \A obi_version \in Versions, use_canonical_id \in BOOLEAN :
        /\ \A i \in IssuerIds :
               issuers[i].exists
               => OnlyAppends(Issuer_get_json(i, obi_version, TRUE, use_canonical_id),
                              Issuer_get_json(i, obi_version, FALSE, use_canonical_id),
                              issuers[i].original_json, IssuerExcluded)
        /\ \A b \in BadgeClassIds :
               badgeclasses[b].exists
               => OnlyAppends(BadgeClass_get_json(b, obi_version, TRUE, use_canonical_id),
                              BadgeClass_get_json(b, obi_version, FALSE, use_canonical_id),
                              badgeclasses[b].original_json, BadgeClassExcluded)
        /\ \A a \in InstanceIds :
               (instances[a].exists /\ ~instances[a].revoked)
               => OnlyAppends(BadgeInstance_get_json(a, obi_version, FALSE, FALSE, TRUE,
                                                     use_canonical_id),
                              BadgeInstance_get_json(a, obi_version, FALSE, FALSE, FALSE,
                                                     use_canonical_id),
                              instances[a].original_json, BadgeInstanceExcluded)

C22_Witness ==
    /\ last.op = "BadgeInstance.get_json"
    /\ last.ok
    /\ last.result
    /\ last.arg = <<"2_0">>
    /\ ~instances[1].revoked
    /\ instances[1].original_json = OJDict(RenderedImport)
    /\ instances[1].expires_at = None
    /\ issuers[1].original_json = OJDict(RenderedImport)
    /\ badgeclasses[1].original_json = OJDict(RenderedImport)
    /\ extensions[<<"Assertion", 1>>] # <<>>
    /\ "extra" \in DOMAIN BadgeInstance_get_json(1, "2_0", FALSE, FALSE, TRUE, FALSE).doc
    /\ "id" \in DOMAIN RenderedImport \cap BadgeInstanceExcluded

----------------------------------------------------------------------------
(* Version-specific shapes                                                 *)

\* uid, verify and verification of a rendered assertion
VerifyShape(doc, obi_version) ==
    IF obi_version = "1_1"
    THEN /\ {"uid", "verify"} \subseteq DOMAIN doc
         /\ "verification" \notin DOMAIN doc
         /\ DOMAIN doc["verify"] = {"url", "type"}
         /\ doc["verify"].type = "hosted"
    ELSE /\ "verification" \in DOMAIN doc
         /\ doc["verification"] = [type |-> "HostedBadge"]
         /\ "uid" \notin DOMAIN doc
         /\ "verify" \notin DOMAIN doc

\* evidence of a rendered assertion with the evidence rows given
EvidenceShape(doc, obi_version, rows, a) ==
    /\ ("evidence" \in DOMAIN doc) <=> (Len(rows) >= 1)
    /\ "evidence" \in DOMAIN doc
       => IF obi_version = "1_1"
          THEN doc["evidence"] \in {public_url(a)}
                                   \cup {External(rows[k].evidence_url) : k \in DOMAIN rows}
          ELSE /\ DOMAIN doc["evidence"] = DOMAIN rows
               /\ \A k \in DOMAIN rows :
                      doc["evidence"][k] = Evidence_get_json(rows[k])

\* criteria of a rendered badge class
CriteriaShape(doc, obi_version, self, b) ==
    /\ "criteria" \in DOMAIN doc
    /\ IF obi_version = "1_1"
       THEN doc["criteria"] = IF Truthy(self.criteria_url)
                              THEN External(self.criteria_url)
                              ELSE Reverse("badgeclass_criteria", EntityId("BadgeClass", b))
       ELSE /\ DOMAIN doc["criteria"]
               = (IF Truthy(self.criteria_url) THEN {"id"} ELSE {})
                 \cup (IF Truthy(self.criteria_text) THEN {"narrative"} ELSE {})
            /\ Truthy(self.criteria_url) => doc["criteria"]["id"] = self.criteria_url
            /\ Truthy(self.criteria_text)
               => doc["criteria"]["narrative"] = self.criteria_text

\* C23: a non-revoked assertion rendered at 1_1 has uid and verify = {url,
\* type: hosted} and no verification, and at 2_0 has verification = {type:
\* HostedBadge} and neither uid nor verify; its evidence is one URL at 1_1
\* and the list of evidence objects at 2_0, present exactly when an evidence
\* row exists; a badge class has criteria as one URL at 1_1 and at 2_0 as an
\* object with id only when criteria_url is set and narrative only when
\* criteria_text is set.
C23_VersionShapes ==
    \A obi_version \in Versions, include_extra \in BOOLEAN, use_canonical_id \in BOOLEAN :
        /\ \A a \in InstanceIds :
               LET r == BadgeInstance_get_json(a, obi_version, FALSE, FALSE,
                                               include_extra, use_canonical_id)
               IN  (instances[a].exists /\ ~instances[a].revoked /\ ~r.raised)
                   => /\ VerifyShape(r.doc, obi_version)
                      /\ EvidenceShape(r.doc, obi_version, evidence[a], a)
        /\ \A b \in BadgeClassIds :
               LET r == BadgeClass_get_json(b, obi_version, include_extra,
                                            use_canonical_id)
               IN  (badgeclasses[b].exists /\ ~r.raised)
                   => CriteriaShape(r.doc, obi_version, badgeclasses[b], b)

C23_Witness ==
    /\ last.op = "BadgeInstance.get_json"
    /\ last.ok
    /\ last.arg = <<"1_1">>
    /\ ~instances[1].revoked
    /\ Len(evidence[1]) = 2
    /\ Truthy(badgeclasses[1].criteria_url)
    /\ ~Truthy(badgeclasses[1].criteria_text)
    /\ BadgeInstance_get_json(1, "1_1", FALSE, FALSE, TRUE, FALSE).doc["evidence"]
       = public_url(1)

----------------------------------------------------------------------------
(* Extensions and the computed keys                                        *)

\* the rendered values of keys are those of computed
SameAt(doc, computed, keys) ==
    \A k \in keys : k \in DOMAIN doc /\ doc[k] = computed[k]

\* C30: whatever extension rows are stored, the rendered @context, type and
\* id of an Issuer, a BadgeClass and a non-revoked BadgeInstance, and the
\* badge, recipient and issuedOn of the BadgeInstance, are the values
\* get_json computed for them.
C30_ExtensionsOnlyAppend ==
    \A obi_version \in Versions, use_canonical_id \in BOOLEAN :
        /\ \A i \in IssuerIds :
               LET r == Issuer_get_json(i, obi_version, FALSE, use_canonical_id)
               IN  (issuers[i].exists /\ ~r.raised)
                   => SameAt(r.doc,
                             IssuerHead(issuers[i], i, obi_version, use_canonical_id),
                             {"@context", "type", "id"})
        /\ \A b \in BadgeClassIds :
               LET r == BadgeClass_get_json(b, obi_version, FALSE, use_canonical_id)
               IN  (badgeclasses[b].exists /\ ~r.raised)
                   => SameAt(r.doc,
                             BadgeClassHead(badgeclasses[b], b, obi_version,
                                            use_canonical_id),
                             {"@context", "type", "id"})
        /\ \A a \in InstanceIds :
               LET r == BadgeInstance_get_json(a, obi_version, FALSE, FALSE, FALSE,
                                               use_canonical_id)
               IN  (instances[a].exists /\ ~instances[a].revoked /\ ~r.raised)
                   => /\ SameAt(r.doc,
                                InstanceHead(instances[a], a, obi_version,
                                             Badge(instances[a], obi_version, FALSE,
                                                   FALSE, Raise, Raise)),
                                {"@context", "type", "id", "badge"})
                      /\ SameAt(r.doc, "recipient" :> Recipient(instances[a]),
                                {"recipient"})
                      /\ SameAt(r.doc, "issuedOn" :> instances[a].issued_on,
                                {"issuedOn"})

----------------------------------------------------------------------------
(* Reconciliation by semantic fields                                       *)

\* C24: after alignment_items, tag_items or evidence_items returns, the
\* persisted child rows hold exactly the field tuples the desired list
\* describes.
C24_RowsAreDesired ==
    /\ (last.op = "alignment_items" /\ last.ok)
       => Range(alignments[last.id]) = {AlignmentRow(last.arg[k]) : k \in DOMAIN last.arg}
    /\ (last.op = "tag_items" /\ last.ok)
       => Range(tags[last.id]) = {[name |-> last.arg[k]] : k \in DOMAIN last.arg}
    /\ (last.op = "evidence_items" /\ last.ok)
       => Range(evidence[last.id])
          = {[narrative |-> last.arg[k].narrative,
              evidence_url |-> last.arg[k].evidence_url] : k \in DOMAIN last.arg}

----------------------------------------------------------------------------
(* Roles of the desired staff                                              *)

\* C25: after staff_items returns, every user the desired list names with
\* one role is a staff member of the issuer with that role, whether the user
\* was a member before the call or not.
C25_DesiredRolesHeld ==
    (last.op = "staff_items" /\ last.ok)
    => \A k \in DOMAIN last.arg :
           (\A j \in DOMAIN last.arg :
                last.arg[j].cached_user = last.arg[k].cached_user
                => last.arg[j].role = last.arg[k].role)
           => \E n \in DOMAIN staff[last.id] :
                  /\ staff[last.id][n].user = last.arg[k].cached_user
                  /\ staff[last.id][n].role = last.arg[k].role

----------------------------------------------------------------------------
(* The publish cascade                                                     *)

\* a call of publish() on the row of a model; id is the row's parent for a
\* child row, user the user of an IssuerStaff row or the BadgeUser published
Call(kind, id, user, publish_staff) ==
    [kind |-> kind, id |-> id, user |-> user, publish_staff |-> publish_staff]

ParentKind ==
    [IssuerExtension |-> "Issuer", BadgeClassExtension |-> "BadgeClass",
     BadgeInstanceExtension |-> "BadgeInstance", BadgeClassAlignment |-> "BadgeClass",
     BadgeClassTag |-> "BadgeClass", BadgeInstanceEvidence |-> "BadgeInstance"]

\* a loop in which Issuer.publish publishes its IssuerStaff rows
CalleesWithStaffRows(c) ==
    IF c.kind = "Issuer"
    THEN [k \in 1..Len(staff[c.id]) |->
             Call("IssuerStaff", c.id, staff[c.id][k].user, FALSE)]
    ELSE IF c.kind = "IssuerStaff"
    THEN <<Call("Issuer", c.id, 0, FALSE), Call("BadgeUser", 0, c.user, FALSE)>>
    ELSE <<>>

\* the publish() calls that a publish() makes on other rows, in order
Callees(c) ==
    IF c.kind \in DOMAIN ParentKind
    THEN <<Call(ParentKind[c.kind], c.id, 0, FALSE)>>
    ELSE IF c.kind = "IssuerStaff"
    THEN <<Call("Issuer", c.id, 0, FALSE), Call("BadgeUser", 0, c.user, FALSE)>>
    ELSE IF c.kind = "BadgeInstance"
    THEN <<Call("BadgeClass", instances[c.id].badgeclass, 0, FALSE)>>
         \o (IF publishing.recipient_user THEN <<Call("BadgeUser", 0, 2, FALSE)>>
             ELSE <<>>)
         \o [k \in 1..publishing.collections |->
                Call("BackpackCollection", k, 0, FALSE)]
    ELSE IF c.kind = "BadgeClass"
    THEN <<Call("Issuer", badgeclasses[c.id].issuer, 0, FALSE)>>
         \o (IF publishing.created_by THEN <<Call("BadgeUser", 0, 1, FALSE)>>
             ELSE <<>>)
    ELSE IF c.kind = "Issuer" /\ c.publish_staff
    THEN [k \in 1..Len(staff[c.id]) |->
             Call("BadgeUser", 0, staff[c.id][k].user, FALSE)]
    ELSE <<>>

\* the publish() calls a caller of this module can start
PublishRoots ==
    {Call(k, 1, 0, FALSE) : k \in DOMAIN ParentKind \cup {"BadgeInstance", "BadgeClass"}}
    \cup {Call("Issuer", 1, 0, TRUE), Call("Issuer", 1, 0, FALSE)}
    \cup {Call("IssuerStaff", 1, u, FALSE) : u \in {1, 2}}

InitPublish ==
    /\ issuers = [i \in IssuerIds |-> SavedIssuer]
    /\ badgeclasses = [b \in BadgeClassIds |-> [BlankBadgeClass EXCEPT !.exists = TRUE]]
    /\ instances = [a \in InstanceIds |-> IF a = 1 THEN IssuedInstance ELSE BlankInstance]
    /\ staff \in [IssuerIds -> {<<Owner1>>, <<Owner1, [user |-> 2, role |-> ROLE_STAFF]>>}]
    /\ extensions = [k \in EntityKeys |-> <<>>]
    /\ alignments = [b \in BadgeClassIds |-> <<>>]
    /\ tags = [b \in BadgeClassIds |-> <<>>]
    /\ evidence = [a \in InstanceIds |-> <<>>]
    /\ storage = {1}
    /\ collection = "none"
    /\ identities = [k \in {<<"email">>, <<"url">>} \X Recipients |-> "none"]
    /\ bakedimages = [k \in InstanceIds \X Versions |-> [exists |-> FALSE, revoked |-> FALSE, rows |-> 0]]
    /\ rebaking = [pc |-> "idle", a |-> 0, old_name |-> NoFile, new_name |-> NoFile,
                   save |-> FALSE]
    /\ \E created_by \in BOOLEAN, recipient_user \in BOOLEAN,
          collections \in 0..MaxCollections :
           publishing = [NotPublishing EXCEPT !.created_by = created_by,
                                              !.recipient_user = recipient_user,
                                              !.collections = collections]
    /\ units = NoUnits
    /\ last = Start

\* a caller invokes publish() on a row
StartPublish(c) ==
    /\ publishing.stack = <<>>
    /\ publishing' = [publishing EXCEPT !.stack = <<c>>, !.n = 0, !.root = c.kind]
    /\ last' = [Report("publish", c.id, TRUE) EXCEPT !.arg = <<"call", c.kind>>]
    /\ UNCHANGED <<entities, children, storage, collection, units, identities, bakedimages, rebaking>>

\* the publish() on top of the stack runs: it publishes its own row and
\* calls publish() on the rows Callees gives
PublishStep ==
    /\ publishing.stack # <<>>
    /\ publishing.n < MaxPublishCalls
    /\ publishing' = [publishing EXCEPT
                          !.stack = Callees(Head(@)) \o Tail(@), !.n = @ + 1]
    /\ last' = [Report("publish", Head(publishing.stack).id, TRUE)
                   EXCEPT !.arg = <<"run", Head(publishing.stack).kind>>]
    /\ UNCHANGED <<entities, children, storage, collection, units, identities, bakedimages, rebaking>>

NextPublish ==
    \/ \E c \in PublishRoots : StartPublish(c)
    \/ PublishStep

SpecPublish == InitPublish /\ [][NextPublish]_vars

\* child rows, then BadgeInstance, BadgeClass, Issuer; a BadgeUser and a
\* BackpackCollection publish nothing of this module
Rank(kind) ==
    IF kind \in DOMAIN ParentKind \cup {"IssuerStaff"} THEN 0
    ELSE IF kind = "BadgeInstance" THEN 1
    ELSE IF kind = "BadgeClass" THEN 2
    ELSE IF kind = "Issuer" THEN 3
    ELSE 4

\* C26: each publish() of a cascade calls publish() only on rows above its
\* own (child row, BadgeInstance, BadgeClass, Issuer), a BadgeInstance first
\* on its BadgeClass and a BadgeClass first on its Issuer, every Issuer
\* reached from below with publish_staff off; no cascade reaches
\* MaxPublishCalls calls.
C26_PublishCascadeClimbs ==
    [][(publishing'.n = publishing.n + 1)
       => LET c == Head(publishing.stack)
              called == Callees(c)
          IN  /\ \A k \in DOMAIN called :
                     /\ Rank(called[k].kind) > Rank(c.kind)
                     /\ called[k].kind = "Issuer" => ~called[k].publish_staff
              /\ c.kind = "BadgeInstance"
                 => called[1] = Call("BadgeClass", instances[c.id].badgeclass, 0, FALSE)
              /\ c.kind = "BadgeClass"
                 => called[1] = Call("Issuer", badgeclasses[c.id].issuer, 0, FALSE)
              /\ publishing'.n < MaxPublishCalls]_vars

C26_Witness ==
    /\ publishing.root = "BadgeInstanceEvidence"
    /\ publishing.stack = <<>>
    /\ publishing.n = 8
    /\ last.op = "publish"
    /\ last.arg = <<"run", "BackpackCollection">>

----------------------------------------------------------------------------
(* Two staff_items calls side by side                                      *)

Owner2 == [user |-> 2, role |-> ROLE_OWNER]

InitStaffRace ==
    /\ issuers = [i \in IssuerIds |-> SavedIssuer]
    /\ badgeclasses = [b \in BadgeClassIds |-> BlankBadgeClass]
    /\ instances = [a \in InstanceIds |-> BlankInstance]
    /\ staff \in [IssuerIds -> {<<Owner1, Owner2>>,
                                <<Owner1, [user |-> 2, role |-> ROLE_EDITOR]>>}]
    /\ extensions = [k \in EntityKeys |-> <<>>]
    /\ alignments = [b \in BadgeClassIds |-> <<>>]
    /\ tags = [b \in BadgeClassIds |-> <<>>]
    /\ evidence = [a \in InstanceIds |-> <<>>]
    /\ storage = {}
    /\ collection = "staff"
    /\ Idle
    /\ last = Start

\* staff_items = value in the unit's own transaction: the setter reads the
\* committed staff and owners and makes its writes, which no other unit
\* sees before the commit
StaffItemsBegin(u, i, value) ==
    LET acc == staff_items(staff[i], value, 0)
    IN  /\ units[u].pc = "idle"
        /\ issuers[i].exists
        /\ units' = [units EXCEPT ![u] =
               [pc |-> "written", id |-> i,
                deleted |-> {staff[i][k].user : k \in DOMAIN staff[i]}
                            \ {acc.rows[k].user : k \in DOMAIN acc.rows},
                created |-> SelectSeq(acc.rows,
                                      LAMBDA r : \A k \in DOMAIN staff[i] :
                                                     staff[i][k].user # r.user)]]
        /\ last' = [Report("staff_items_begin", i, TRUE) EXCEPT !.arg = value]
        /\ UNCHANGED <<entities, children, storage, collection, publishing, identities, bakedimages, rebaking>>

\* the transaction of the unit commits: its deletes and creates reach the
\* committed rows
StaffItemsCommit(u) ==
    LET mine == units[u]
        left == SelectSeq(staff[mine.id], LAMBDA r : r.user \notin mine.deleted)
        new == SelectSeq(mine.created,
                         LAMBDA r : \A k \in DOMAIN left : left[k].user # r.user)
    IN  /\ mine.pc = "written"
        /\ staff' = [staff EXCEPT ![mine.id] = left \o new]
        /\ units' = [units EXCEPT ![u] = [pc |-> "idle"]]
        /\ last' = [Report("staff_items_commit", mine.id, TRUE) EXCEPT
                        !.deleted = Cardinality(mine.deleted),
                        !.created = Len(new)]
        /\ UNCHANGED <<entities, extensions, alignments, tags, evidence, storage, collection, publishing, identities, bakedimages, rebaking>>

NextStaffRace ==
    \/ \E u \in Units, value \in StaffLists : StaffItemsBegin(u, 1, value)
    \/ \E u \in Units : StaffItemsCommit(u)

SpecStaffRace == InitStaffRace /\ [][NextStaffRace]_vars

\* C27: when the staff_items calls running side by side on an issuer have
\* all committed, the issuer has at least one OWNER.
C27_OwnerSurvivesConcurrentSetters ==
    (\A u \in Units : units[u].pc = "idle") => Len(owners(staff[1])) >= 1

----------------------------------------------------------------------------
(* Several get_baked_image_url calls side by side                          *)

\* get_baked_image_url up to the lookup: cached.get(badgeinstance=self,
\* obi_version=...) finds the stored row, or finds none and the unit goes on
\* to bake.  With more than one row the lookup returns one of them from the
\* cache or raises MultipleObjectsReturned.
BakedImageLookup(u, a, obi_version, from_cache) ==
    LET row == bakedimages[<<a, obi_version>>]
    IN  /\ units[u].pc = "idle"
        /\ instances[a].exists
        /\ obi_version # UNVERSIONED_BAKED_VERSION
        /\ units' = [units EXCEPT ![u] =
               IF row.rows = 0
               THEN [pc |-> "baking", a |-> a, obi_version |-> obi_version]
               ELSE [pc |-> "idle"]]
        /\ last' = [Report("baked_image_lookup", a,
                           row.rows = 1 \/ (row.rows > 1 /\ from_cache))
                       EXCEPT !.arg = <<obi_version>>, !.writes = row.rows]
        /\ UNCHANGED <<entities, children, storage, collection, publishing, identities, bakedimages, rebaking>>

\* the rest of get_baked_image_url: bake the expanded document into a new
\* BadgeInstanceBakedImage and save it
BakedImageSave(u) ==
    LET a == units[u].a
        obi_version == units[u].obi_version
        json_to_bake == BadgeInstance_get_json(a, obi_version, TRUE, TRUE, TRUE, FALSE)
    IN  /\ units[u].pc = "baking"
        /\ bakedimages' = [bakedimages EXCEPT ![<<a, obi_version>>] =
               IF json_to_bake.raised THEN @
               ELSE [exists |-> TRUE,
                     revoked |-> "revoked" \in DOMAIN json_to_bake.doc,
                     rows |-> @.rows + 1]]
        /\ units' = [units EXCEPT ![u] = [pc |-> "idle"]]
        /\ last' = [Report("get_baked_image_url", a, ~json_to_bake.raised) EXCEPT
                        !.arg = <<obi_version>>,
                        !.created = IF json_to_bake.raised THEN 0 ELSE 1]
        /\ UNCHANGED <<entities, children, storage, collection, publishing, identities, rebaking>>

NextBakeRace ==
    \/ \E u \in Units, obi_version \in Versions, from_cache \in BOOLEAN :
           BakedImageLookup(u, 1, obi_version, from_cache)
    \/ \E u \in Units : BakedImageSave(u)

SpecBakeRace == InitRender /\ [][NextBakeRace]_vars

\* C28: whatever get_baked_image_url calls run side by side, at most one
\* BadgeInstanceBakedImage exists for an assertion and a version, and a
\* lookup made when rows exist finds one.
C28_OneBakedImagePerVersion ==
    /\ \A k \in DOMAIN bakedimages : bakedimages[k].rows <= 1
    /\ (last.op = "baked_image_lookup" /\ last.writes > 0) => last.ok

----------------------------------------------------------------------------
(* A save from a copy loaded before a revocation                           *)

InitStale ==
    /\ issuers = [i \in IssuerIds |-> SavedIssuer]
    /\ badgeclasses = [b \in BadgeClassIds |-> [BlankBadgeClass EXCEPT !.exists = TRUE]]
    /\ \E hashed \in BOOLEAN, source_url \in {None, ExternalUrl} :
           instances = [a \in InstanceIds |->
                           IF a # 1 THEN BlankInstance
                           ELSE [IssuedInstance EXCEPT !.hashed = hashed,
                                                       !.source_url = source_url]]
    /\ staff = [i \in IssuerIds |-> <<Owner1>>]
    /\ extensions = [k \in EntityKeys |-> <<>>]
    /\ alignments = [b \in BadgeClassIds |-> <<>>]
    /\ tags = [b \in BadgeClassIds |-> <<>>]
    /\ evidence = [a \in InstanceIds |-> <<>>]
    /\ storage = {1}
    /\ collection = "none"
    /\ Idle
    /\ last = Start

\* a unit of work loads the assertion: it holds a copy of the row
Load(u, a) ==
    /\ units[u].pc = "idle"
    /\ instances[a].exists
    /\ units' = [units EXCEPT ![u] = [pc |-> "loaded", a |-> a, copy |-> instances[a]]]
    /\ last' = Report("load", a, TRUE)
    /\ UNCHANGED <<entities, children, storage, collection, publishing, identities, bakedimages, rebaking>>

\* save() on the copy the unit holds: Model.save writes every field of the
\* copy to the row
SaveCopy(u) ==
    LET a == units[u].a
        self == NormalizeReason(units[u].copy)
    IN  /\ units[u].pc = "loaded"
        /\ instances' = [instances EXCEPT ![a] = self]
        /\ units' = [units EXCEPT ![u] = [pc |-> "idle"]]
        /\ last' = Report("save", a, TRUE)
        /\ UNCHANGED <<issuers, badgeclasses, children, storage, collection, publishing, identities, bakedimages, rebaking>>

\* rebake(obi_version, save=True) on the copy the unit holds
RebakeCopy(u, obi_version) ==
    LET a == units[u].a
        copy == units[u].copy
        json == InstanceJson(copy, a, obi_version, FALSE, FALSE, TRUE, FALSE)
        self == NormalizeReason([copy EXCEPT !.image = FreshFile])
    IN  /\ units[u].pc = "loaded"
        /\ Files \ storage # {}
        /\ instances' = IF json.raised THEN instances
                        ELSE [instances EXCEPT ![a] = self]
        /\ storage' = IF json.raised THEN storage
                      ELSE (storage \cup {FreshFile}) \ {copy.image}
        /\ units' = [units EXCEPT ![u] = [pc |-> "idle"]]
        /\ last' = [Report("rebake", a, ~json.raised) EXCEPT !.arg = <<obi_version>>]
        /\ UNCHANGED <<issuers, badgeclasses, children, collection, publishing, identities, bakedimages, rebaking>>

NextStale ==
    \/ \E u \in Units : Load(u, 1)
    \/ \E revocation_reason \in Reasons : Revoke(1, revocation_reason)
    \/ \E u \in Units : SaveCopy(u)
    \/ \E u \in Units, obi_version \in Versions : RebakeCopy(u, obi_version)

SpecStale == InitStale /\ [][NextStale]_vars

\* C29: a persisted assertion that is revoked stays revoked with its reason,
\* whatever save or rebake another unit of work runs on a copy it loaded
\* before the revocation.
C29_RevocationSurvivesStaleSave ==
    [][\A a \in InstanceIds :
           (instances[a].exists /\ instances[a].revoked)
           => /\ instances'[a].revoked
              /\ instances'[a].revocation_reason = instances[a].revocation_reason]_vars

====
